---------------------------- MODULE Spec2Model ----------------------------
(***************************************************************************)
(* Model of mcp-rag-browser-enhanced: the search provider factory          *)
(* (src/src/providers/search-factory.ts), the two provider adapters        *)
(* (tavily-search.ts, apify-search.ts) and the two front-ends that hold    *)
(* one adapter for the life of the process (http-server.ts, server.ts,     *)
(* index.ts).                                                              *)
(*                                                                         *)
(* Text is modelled as a sequence of atoms: an environment value is a      *)
(* sequence of one-character strings, an error message is a sequence of    *)
(* the parts its template concatenates.  A JavaScript value that may be    *)
(* undefined is a record [def, str]; a property of a parsed JSON body is a *)
(* record [type, str, num].  The HTML that htmlToMarkdown converts, and    *)
(* the Markdown it gives, are sequences of one-character strings.          *)
(***************************************************************************)
EXTENDS Integers, Sequences, FiniteSets, TLC

VARIABLES
    env,            \* process.env: SEARCH_PROVIDER, TAVILY_API_KEY, APIFY_TOKEN
    fcall,          \* the most recent direct call of a factory method
    frontend,       \* "http" (http-server.ts) or "stdio" (index.ts + server.ts)
    phase,          \* "init", "serving" or "exited"
    exitCode,       \* the code given to process.exit, NoExit before
    searchProvider, \* the adapter instance the front-end holds
    providerType,   \* the provider type chosen at startup
    bootCredential, \* history: whether startup saw a non-empty credential
    bootProvider,   \* history: the adapter instance startup constructed
    constructions,  \* history: how many adapter constructors have returned
    calls,          \* the searchWeb calls in flight, by slot
    staleDispatch,  \* history: a search was dispatched after the environment
                    \* had changed so that startup would choose another adapter
    settled,        \* the searchWeb call that settled last
    md,             \* the most recent htmlToMarkdown conversion
    answer,         \* the most recent search answered by a front-end
    conc,           \* concurrent searchWeb calls on one adapter, await by await
    posts,          \* requests from their body to the reply or the outbound call
    srv             \* the HTTP server: its connections, their replies, shutdown

factoryVars == <<env, fcall>>
procVars == <<frontend, phase, exitCode, searchProvider, providerType,
              bootCredential, bootProvider, constructions, calls,
              staleDispatch, settled>>
pureVars == <<md, answer, conc, posts, srv>>
vars == <<env, fcall, frontend, phase, exitCode, searchProvider, providerType,
          bootCredential, bootProvider, constructions, calls, staleDispatch,
          settled, md, answer, conc, posts, srv>>

---------------------------------------------------------------------------
(* Bounds *)

MaxCalls == 2
MaxHits == 2
MaxItems == 3

---------------------------------------------------------------------------
(* JavaScript values *)

Undefined == [def |-> FALSE, str |-> <<>>]
Str(s) == [def |-> TRUE, str |-> s]

\* !!v for a value that is a string or undefined
TruthyEmptyString(v) == v.def
Truthy(v) == v.def /\ v.str # <<>>

UpperLetters == <<"A", "B", "C", "D", "E", "F", "G", "H", "I", "J", "K", "L", "M",
                  "N", "O", "P", "Q", "R", "S", "T", "U", "V", "W", "X", "Y", "Z">>
LowerLetters == <<"a", "b", "c", "d", "e", "f", "g", "h", "i", "j", "k", "l", "m",
                  "n", "o", "p", "q", "r", "s", "t", "u", "v", "w", "x", "y", "z">>

LowerChar(c) ==
    IF \E i \in DOMAIN UpperLetters : UpperLetters[i] = c
    THEN LowerLetters[CHOOSE i \in DOMAIN UpperLetters : UpperLetters[i] = c]
    ELSE c

\* String.prototype.toLowerCase
toLowerCaseIdentity(s) == s
toLowerCase(s) == [i \in DOMAIN s |-> LowerChar(s[i])]

---------------------------------------------------------------------------
(* Provider identifiers and the environment *)

Tavily == <<"t", "a", "v", "i", "l", "y">>
Apify == <<"a", "p", "i", "f", "y">>
Google == <<"g", "o", "o", "g", "l", "e">>

ProviderNames ==
    { Undefined, Str(<<>>), Str(Tavily), Str(<<"T", "a", "V", "i", "l", "y">>),
      Str(<<"A", "P", "I", "F", "Y">>), Str(Google) }

Credentials == { Undefined, Str(<<>>), Str(<<"k", "1">>), Str(<<"k", "2">>) }

\* the environments in which the factory's methods are called directly
Envs == [SEARCH_PROVIDER : ProviderNames,
         TAVILY_API_KEY : Credentials,
         APIFY_TOKEN : Credentials]

\* the environments a front-end process runs in
ProcessEnvs ==
    [SEARCH_PROVIDER : { Undefined, Str(Tavily), Str(<<"A", "P", "I", "F", "Y">>) },
     TAVILY_API_KEY : Credentials,
     APIFY_TOKEN : { Undefined, Str(<<"k", "1">>) }]

---------------------------------------------------------------------------
(* Adapters: the constructors *)

NoAdapter == [kind |-> "none", cred |-> Undefined]

Returned(a) == [threw |-> FALSE, adapter |-> a, error |-> <<>>]
Threw(msg) == [threw |-> TRUE, adapter |-> NoAdapter, error |-> msg]

TavilySearchProvider(apiKey) ==
    IF ~Truthy(apiKey)
    THEN Threw(<<"Tavily API key is required">>)
    ELSE Returned([kind |-> "tavily", cred |-> apiKey])

ApifySearchProvider(apiToken) ==
    IF ~Truthy(apiToken)
    THEN Threw(<<"Apify API token is required">>)
    ELSE Returned([kind |-> "apify", cred |-> apiToken])

---------------------------------------------------------------------------
(* SearchProviderFactory *)

createTavilyProvider(e) ==
    LET apiKey == e.TAVILY_API_KEY
    IN  IF ~Truthy(apiKey)
        THEN Threw(<<"TAVILY_API_KEY is required but not set. ">>)
        ELSE TavilySearchProvider(apiKey)

createApifyProvider(e) ==
    LET apiToken == e.APIFY_TOKEN
    IN  IF ~Truthy(apiToken)
        THEN Threw(<<"APIFY_TOKEN is required but not set. ">>)
        ELSE ApifySearchProvider(apiToken)

createProviderAlwaysDefault(t, e) == createApifyProvider(e)
createProvider(t, e) ==
    IF t = Tavily THEN createTavilyProvider(e) ELSE createApifyProvider(e)

getAvailableProvidersDefined(e) ==
    << [type |-> Tavily,
        available |-> TruthyEmptyString(e.TAVILY_API_KEY),
        reason |-> IF ~TruthyEmptyString(e.TAVILY_API_KEY)
                   THEN Str(<<"TAVILY_API_KEY not set">>) ELSE Undefined],
       [type |-> Apify,
        available |-> TruthyEmptyString(e.APIFY_TOKEN),
        reason |-> IF ~TruthyEmptyString(e.APIFY_TOKEN)
                   THEN Str(<<"APIFY_TOKEN not set">>) ELSE Undefined] >>
getAvailableProviders(e) ==
    << [type |-> Tavily,
        available |-> Truthy(e.TAVILY_API_KEY),
        reason |-> IF ~Truthy(e.TAVILY_API_KEY)
                   THEN Str(<<"TAVILY_API_KEY not set">>) ELSE Undefined],
       [type |-> Apify,
        available |-> Truthy(e.APIFY_TOKEN),
        reason |-> IF ~Truthy(e.APIFY_TOKEN)
                   THEN Str(<<"APIFY_TOKEN not set">>) ELSE Undefined] >>

\* Array.prototype.find: the first element with the type, or undefined
FindByType(providers, t) ==
    LET hits == SelectSeq(providers, LAMBDA p : p.type = t)
    IN  IF hits = <<>> THEN [found |-> FALSE, info |-> providers[1]]
        ELSE [found |-> TRUE, info |-> hits[1]]

Selected(t, warned) ==
    [threw |-> FALSE, type |-> t, warned |-> warned, error |-> <<>>]
SelectThrew(warned) ==
    [threw |-> TRUE, type |-> <<>>, warned |-> warned,
     error |-> <<"No search providers are configured. ">>]

\* lines 77-88: the first available provider, or the error
fallbackProviderApify(e, warned) ==
    LET availableProviders ==
            SelectSeq(getAvailableProviders(e), LAMBDA p : p.available)
    IN  IF Len(availableProviders) = 0
        THEN Selected(Apify, warned)
        ELSE Selected(availableProviders[1].type, warned)
fallbackProvider(e, warned) ==
    LET availableProviders ==
            SelectSeq(getAvailableProviders(e), LAMBDA p : p.available)
    IN  IF Len(availableProviders) = 0
        THEN SelectThrew(warned)
        ELSE Selected(availableProviders[1].type, warned)

getConfiguredProviderTypeUnchecked(e) ==
    LET configuredProvider ==
            IF e.SEARCH_PROVIDER.def
            THEN Str(toLowerCase(e.SEARCH_PROVIDER.str)) ELSE Undefined
    IN  IF Truthy(configuredProvider)
        THEN LET providerInfo ==
                     FindByType(getAvailableProviders(e), configuredProvider.str)
             IN  IF providerInfo.found
                 THEN Selected(configuredProvider.str, FALSE)
                 ELSE fallbackProvider(e, TRUE)
        ELSE fallbackProvider(e, FALSE)
getConfiguredProviderType(e) ==
    LET configuredProvider ==
            IF e.SEARCH_PROVIDER.def
            THEN Str(toLowerCase(e.SEARCH_PROVIDER.str)) ELSE Undefined
    IN  IF Truthy(configuredProvider)
        THEN LET providerInfo ==
                     FindByType(getAvailableProviders(e), configuredProvider.str)
             IN  IF providerInfo.found /\ providerInfo.info.available
                 THEN Selected(configuredProvider.str, FALSE)
                 ELSE fallbackProvider(e, TRUE)
        ELSE fallbackProvider(e, FALSE)

---------------------------------------------------------------------------
(* Direct calls of the factory's static methods *)

NoSelect == [threw |-> FALSE, type |-> <<>>, warned |-> FALSE, error |-> <<>>]
NoCall ==
    [op |-> "none", arg |-> <<>>, env |-> [SEARCH_PROVIDER |-> Undefined,
                                           TAVILY_API_KEY |-> Undefined,
                                           APIFY_TOKEN |-> Undefined],
     providers |-> <<>>, sel |-> NoSelect, made |-> Returned(NoAdapter)]

\* process.env[name] = value, or delete process.env[name]
AssignEnv(envs) ==
    \E name \in DOMAIN env :
       \E v \in {e[name] : e \in envs} \ {env[name]} :
          env' = [env EXCEPT ![name] = v]

FactorySetEnv ==
    /\ AssignEnv(Envs)
    /\ UNCHANGED <<fcall, procVars, pureVars>>

CallGetAvailableProviders ==
    /\ fcall' = [NoCall EXCEPT !.op = "getAvailableProviders", !.env = env,
                               !.providers = getAvailableProviders(env)]
    /\ UNCHANGED <<env, procVars, pureVars>>

CallGetConfiguredProviderType ==
    /\ fcall' = [NoCall EXCEPT !.op = "getConfiguredProviderType", !.env = env,
                               !.sel = getConfiguredProviderType(env)]
    /\ UNCHANGED <<env, procVars, pureVars>>

CallCreateProvider(t) ==
    /\ fcall' = [NoCall EXCEPT !.op = "createProvider", !.arg = t, !.env = env,
                               !.made = createProvider(t, env)]
    /\ UNCHANGED <<env, procVars, pureVars>>

\* http-server.ts 66-68, server.ts 58-59: the provider type is selected and
\* the adapter of that type is constructed, in one synchronous run
CallInitializeProvider ==
    /\ LET sel == getConfiguredProviderType(env)
       IN  fcall' = [NoCall EXCEPT
                        !.op = "initializeProvider", !.env = env, !.sel = sel,
                        !.made = IF sel.threw THEN Threw(sel.error)
                                 ELSE createProvider(sel.type, env)]
    /\ UNCHANGED <<env, procVars, pureVars>>

---------------------------------------------------------------------------
(* Front-end startup *)

\* an exit code is <<>> while the process runs and <<code>> after process.exit
NoExit == <<>>

Halt(e) ==
    [exit |-> <<1>>, provider |-> NoAdapter, type |-> <<>>, built |-> 0]
Serve(sel, made) ==
    [exit |-> NoExit, provider |-> made.adapter, type |-> sel.type, built |-> 1]

\* http-server.ts: the try/catch around selection and construction at module
\* load; process.exit(1) in the catch ends the process before any route is
\* registered and before app.listen
HttpStartupNoExit(e) ==
    LET sel == getConfiguredProviderType(e)
    IN  IF sel.threw THEN [Halt(e) EXCEPT !.exit = NoExit]
        ELSE LET made == createProvider(sel.type, e)
             IN  IF made.threw THEN [Halt(e) EXCEPT !.exit = NoExit]
                 ELSE Serve(sel, made)
HttpStartup(e) ==
    LET sel == getConfiguredProviderType(e)
    IN  IF sel.threw THEN Halt(e)
        ELSE LET made == createProvider(sel.type, e)
             IN  IF made.threw THEN Halt(e) ELSE Serve(sel, made)

\* server.ts: the RagWebBrowserServer constructor; index.ts: main() rejects when
\* the constructor throws, and the catch calls process.exit(1) before the
\* transport is created or connected
StdioStartup(e) ==
    LET sel == getConfiguredProviderType(e)
    IN  IF sel.threw THEN Halt(e)
        ELSE LET made == createProvider(sel.type, e)
             IN  IF made.threw THEN Halt(e) ELSE Serve(sel, made)

---------------------------------------------------------------------------
(* Upstream responses *)

\* server.ts: const MAX_RESULTS
MAX_RESULTS == 1

\* the maxResults of a valid request: absent, or an integer in 1..100
NoNumber == [def |-> FALSE, num |-> 0]
Num(n) == [def |-> TRUE, num |-> n]

\* the valid search arguments requests carry
SearchArgs ==
    { [query |-> "san francisco weather", maxResults |-> NoNumber],
      [query |-> "https://www.cnn.com", maxResults |-> Num(3)] }

JsonShapes == {"invalid", "array", "wrapped", "single", "other", "null"}

---------------------------------------------------------------------------
(* Values of a parsed JSON body *)

\* a property of a parsed JSON object: absent (read as undefined), a string
\* (a sequence of characters) or a number
JUndefined == [type |-> "undefined", str |-> <<>>, num |-> 0]
JString(s) == [type |-> "string", str |-> s, num |-> 0]
JNumber(n) == [type |-> "number", str |-> <<>>, num |-> n]

\* ToBoolean: what a || b tests
JTruthy(v) ==
    CASE v.type = "string" -> Len(v.str) > 0
      [] v.type = "number" -> v.num # 0
      [] OTHER -> FALSE

\* a || b
Or(a, b) == IF JTruthy(a) THEN a ELSE b

\* the keys the adapters read from an upstream hit
HitKeys ==
    {"title", "name", "url", "link", "text", "content", "raw_content",
     "markdown", "publishedDate", "published_date", "date", "score", "rank"}

\* a hit is a JSON object: every key the adapters read, absent or with a value
EmptyObject == [k \in HitKeys |-> JUndefined]

Digit == <<"0", "1", "2", "3", "4", "5", "6", "7", "8", "9">>
\* String(n) of a counter below one hundred
Decimal(n) ==
    IF n < 10 THEN <<Digit[n + 1]>>
    ELSE <<Digit[(n \div 10) + 1], Digit[(n % 10) + 1]>>

\* the hits of a body that a claim does not look into: the i-th holds a title
\* and a url, the keys both upstreams use
Hits(n) ==
    [i \in 1..n |->
        [EmptyObject EXCEPT !.title = JString(<<"t", Digit[i + 1]>>),
                            !.url = JString(<<"u", Digit[i + 1]>>)]]

\* what fetch settles with: a network error, or a response with a status and a
\* body.  The body is text that is not JSON ("invalid"), an array of hits, an
\* object with the hits under results ("wrapped"), one hit object ("single"),
\* an object with none of the keys ("other"), or null
NetworkError ==
    [kind |-> "neterr", status |-> 0, statusText |-> "", shape |-> "none",
     hits |-> <<>>, text |-> "", readable |-> FALSE]

OkResponse(shape, hits) ==
    [kind |-> "http", status |-> 200, statusText |-> "OK", shape |-> shape,
     hits |-> hits, text |-> "", readable |-> TRUE]

OkResponses ==
    {OkResponse(shape, Hits(n)) : shape \in {"array", "wrapped"}, n \in 0..MaxHits}
    \cup {OkResponse("single", Hits(1))}
    \cup {OkResponse(shape, <<>>) :
             shape \in JsonShapes \ {"array", "wrapped", "single"}}

ErrorResponses ==
    { r \in [kind : {"http"}, status : {404, 503},
             statusText : {"", "Service Unavailable"},
             shape : {"text"}, hits : {<<>>}, text : {"upstream is down"},
             readable : BOOLEAN] :
        r.statusText = "" <=> r.status = 404 }

Responses == {NetworkError} \cup OkResponses \cup ErrorResponses

\* Response.ok
ResponseOk(r) == r.status >= 200 /\ r.status <= 299

---------------------------------------------------------------------------
(* Text as a sequence of characters, and the regular expressions of          *)
(* htmlToMarkdown (tavily-search.ts 86-139)                                  *)

\* \s, and the line terminators that . does not match
Whitespace == {" ", "\n", "\t", "\r"}
LineTerminators == {"\n", "\r"}

Least(S) == CHOOSE x \in S : \A y \in S : x <= y
Greatest(S) == CHOOSE x \in S : \A y \in S : x >= y

\* the literal lit (in lower case) stands at s[i], letters compared under flag i
MatchesAt(s, i, lit) ==
    /\ i + Len(lit) - 1 <= Len(s)
    /\ \A k \in 1..Len(lit) : LowerChar(s[i + k - 1]) = lit[k]

\* the first index from i on that holds character c, 0 when there is none
IndexOf(s, c, i) ==
    LET at == {j \in i..Len(s) : s[j] = c}
    IN  IF at = {} THEN 0 ELSE Least(at)

\* the first index from i on where one of the literals stands, 0 when none
IndexOfAny(s, lits, i) ==
    LET at == {j \in i..Len(s) : s[j] = "<" /\ \E l \in lits : MatchesAt(s, j, l)}
    IN  IF at = {} THEN 0 ELSE Least(at)

NoMatch == [ok |-> FALSE, next |-> 0, href |-> <<>>, inner |-> <<>>]
Found(next, href, inner) ==
    [ok |-> TRUE, next |-> next, href |-> href, inner |-> inner]

\* <open[^>]*>(.*?)<\/close> at s[i]: [^>]* stops at the first '>', the lazy
\* group at the first closing literal; without flag s the group holds no line
\* terminator
MatchElement(s, i, opens, closes, dotAll) ==
    IF s[i] # "<" \/ ~\E l \in opens : MatchesAt(s, i, l) THEN NoMatch
    ELSE LET open == CHOOSE l \in opens : MatchesAt(s, i, l)
             gt == IndexOf(s, ">", i + Len(open))
         IN  IF gt = 0 THEN NoMatch
             ELSE LET k == IndexOfAny(s, closes, gt + 1)
                  IN  IF k = 0 THEN NoMatch
                      ELSE IF ~dotAll /\ \E j \in (gt + 1)..(k - 1) :
                                            s[j] \in LineTerminators
                      THEN NoMatch
                      ELSE Found(k + Len(CHOOSE l \in closes : MatchesAt(s, k, l)),
                                 <<>>, SubSeq(s, gt + 1, k - 1))

\* <a[^>]*href="([^"]*)"[^>]*>(.*?)<\/a> at s[i]: the greedy [^>]* gives the
\* last href=" of the stretch without '>' from which the rest matches
MatchAnchor(s, i) ==
    IF s[i] # "<" \/ ~MatchesAt(s, i, <<"<", "a">>) THEN NoMatch
    ELSE LET gt1 == IndexOf(s, ">", i + 2)
             limit == IF gt1 = 0 THEN Len(s) ELSE gt1
             Try(h) ==
                LET q == IndexOf(s, "\"", h + 6)
                    g == IF q = 0 THEN 0 ELSE IndexOf(s, ">", q + 1)
                    k == IF g = 0 THEN 0
                         ELSE IndexOfAny(s, {<<"<", "/", "a", ">">>}, g + 1)
                IN  IF k = 0 \/ \E j \in (g + 1)..(k - 1) : s[j] \in LineTerminators
                    THEN NoMatch
                    ELSE Found(k + 4, SubSeq(s, h + 6, q - 1), SubSeq(s, g + 1, k - 1))
             hs == {h \in (i + 2)..limit :
                       /\ MatchesAt(s, h, <<"h", "r", "e", "f", "=", "\"">>)
                       /\ Try(h).ok}
         IN  IF hs = {} THEN NoMatch ELSE Try(Greatest(hs))

\* <lit[^>]*> at s[i]
MatchTag(s, i, lit) ==
    IF s[i] # "<" \/ ~MatchesAt(s, i, lit) THEN NoMatch
    ELSE LET gt == IndexOf(s, ">", i + Len(lit))
         IN  IF gt = 0 THEN NoMatch ELSE Found(gt + 1, <<>>, <<>>)

\* <!--[\s\S]*?--> at s[i]
MatchComment(s, i) ==
    IF s[i] # "<" \/ ~MatchesAt(s, i, <<"<", "!", "-", "-">>) THEN NoMatch
    ELSE LET ends == {k \in (i + 4)..Len(s) : MatchesAt(s, k, <<"-", "-", ">">>)}
         IN  IF ends = {} THEN NoMatch ELSE Found(Least(ends) + 3, <<>>, <<>>)

\* \n\s*\n\s*\n at s[i]: the greedy \s* reach to the last newline of the
\* whitespace run that starts at s[i]
MatchBlankLines(s, i) ==
    IF s[i] # "\n" THEN NoMatch
    ELSE LET stops == {j \in i..Len(s) : s[j] \notin Whitespace}
             last == IF stops = {} THEN Len(s) ELSE Least(stops) - 1
             newlines == {j \in i..last : s[j] = "\n"}
         IN  IF Cardinality(newlines) < 3 THEN NoMatch
             ELSE Found(Greatest(newlines) + 1, <<>>, <<>>)

\* one replace(/.../g, ...) of the chain
Rule(kind, opens, closes, dotAll, before, after) ==
    [kind |-> kind, opens |-> opens, closes |-> closes, dotAll |-> dotAll,
     before |-> before, after |-> after]

Open(name) == <<"<">> \o name
Close(name) == <<"<", "/">> \o name \o <<">">>
HashesOnce(n) == <<"#">>
Hashes(n) == [i \in 1..n |-> "#"]

Heading(n) ==
    Rule("element", {Open(<<"h", Digit[n + 1]>>)}, {Close(<<"h", Digit[n + 1]>>)},
         FALSE, Hashes(n) \o <<" ">>, <<"\n", "\n">>)
Paragraph ==
    Rule("element", {Open(<<"p">>)}, {Close(<<"p">>)}, FALSE, <<>>, <<"\n", "\n">>)
Link == Rule("anchor", {}, {}, FALSE, <<>>, <<>>)
Bold ==
    Rule("element", {Open(<<"s", "t", "r", "o", "n", "g">>), Open(<<"b">>)},
         {Close(<<"s", "t", "r", "o", "n", "g">>), Close(<<"b">>)},
         FALSE, <<"*", "*">>, <<"*", "*">>)
Italic ==
    Rule("element", {Open(<<"e", "m">>), Open(<<"i">>)},
         {Close(<<"e", "m">>), Close(<<"i">>)}, FALSE, <<"*">>, <<"*">>)
ListItemStarred ==
    Rule("element", {Open(<<"l", "i">>)}, {Close(<<"l", "i">>)}, FALSE,
         <<"*", " ">>, <<"\n">>)
ListItem ==
    Rule("element", {Open(<<"l", "i">>)}, {Close(<<"l", "i">>)}, FALSE,
         <<"-", " ">>, <<"\n">>)
UnorderedList ==
    Rule("ul", {Open(<<"u", "l">>)}, {Close(<<"u", "l">>)}, TRUE, <<>>, <<>>)
OrderedList ==
    Rule("ol", {Open(<<"o", "l">>)}, {Close(<<"o", "l">>)}, TRUE, <<>>, <<>>)
LineBreak == Rule("br", {}, {}, FALSE, <<"\n">>, <<>>)
Comment == Rule("comment", {}, {}, TRUE, <<>>, <<>>)
ScriptStyle ==
    Rule("remove", {Open(<<"s", "c", "r", "i", "p", "t">>), Open(<<"s", "t", "y", "l", "e">>)},
         {Close(<<"s", "c", "r", "i", "p", "t">>), Close(<<"s", "t", "y", "l", "e">>)},
         TRUE, <<>>, <<>>)
AnyTag == Rule("tag", {}, {}, FALSE, <<>>, <<>>)
BlankLines == Rule("blank", {}, {}, FALSE, <<"\n", "\n">>, <<>>)

\* the match of a rule's expression at s[i]
Exec(s, i, rule) ==
    CASE rule.kind \in {"element", "ul", "ol", "remove"} ->
            MatchElement(s, i, rule.opens, rule.closes, rule.dotAll)
      [] rule.kind = "anchor" -> MatchAnchor(s, i)
      [] rule.kind = "br" -> MatchTag(s, i, <<"<", "b", "r">>)
      [] rule.kind = "comment" -> MatchComment(s, i)
      [] rule.kind = "tag" -> MatchTag(s, i, <<"<">>)
      [] rule.kind = "blank" -> MatchBlankLines(s, i)

RECURSIVE ReplaceAll(_, _, _)

\* tavily-search.ts 116-120: the replacer of <li> inside <ol> is a function,
\* so the "$1" of the string it returns is not expanded
RECURSIVE NumberItems(_, _, _)
NumberItems(s, i, counter) ==
    LET j == IndexOf(s, "<", i)
    IN  IF j = 0 THEN SubSeq(s, i, Len(s))
        ELSE LET m == Exec(s, j, ListItem)
             IN  IF m.ok
                 THEN SubSeq(s, i, j - 1)
                      \o Decimal(counter) \o <<".", " ", "$", "1", "\n">>
                      \o NumberItems(s, m.next, counter + 1)
                 ELSE SubSeq(s, i, j) \o NumberItems(s, j + 1, counter)

\* what a match is replaced by
Substitute(rule, m) ==
    CASE rule.kind = "element" -> rule.before \o m.inner \o rule.after
      [] rule.kind = "anchor" ->
            <<"[">> \o m.inner \o <<"]", "(">> \o m.href \o <<")">>
      [] rule.kind = "ul" -> ReplaceAll(m.inner, 1, ListItem) \o <<"\n">>
      [] rule.kind = "ol" -> NumberItems(m.inner, 1, 1) \o <<"\n">>
      [] OTHER -> rule.before

\* s.replace(/.../g, ...) from s[i] on: the text up to the next character an
\* expression can start with is kept, a match there is replaced and the scan
\* goes on behind it, and otherwise the scan goes on at the next character
ReplaceAll(s, i, rule) ==
    LET j == IndexOf(s, IF rule.kind = "blank" THEN "\n" ELSE "<", i)
    IN  IF j = 0 THEN SubSeq(s, i, Len(s))
        ELSE LET m == Exec(s, j, rule)
             IN  IF m.ok
                 THEN SubSeq(s, i, j - 1) \o Substitute(rule, m)
                      \o ReplaceAll(s, m.next, rule)
                 ELSE SubSeq(s, i, j) \o ReplaceAll(s, j + 1, rule)

\* replace(/^\s+|\s+$/g, '')
Trim(s) ==
    LET text == {j \in 1..Len(s) : s[j] \notin Whitespace}
    IN  IF text = {} THEN <<>> ELSE SubSeq(s, Least(text), Greatest(text))

\* tavily-search.ts 89-136: the replacements in the order the chain applies them
Replacements ==
    <<Heading(1), Heading(2), Heading(3), Heading(4), Heading(5), Heading(6),
      Paragraph, Link, Bold, Italic, UnorderedList, OrderedList, LineBreak,
      Comment, ScriptStyle, AnyTag, BlankLines>>

RECURSIVE Chain(_, _, _)
Chain(s, rules, n) ==
    IF n > Len(rules) THEN s
    ELSE Chain(ReplaceAll(s, 1, rules[n]), rules, n + 1)

\* tavily-search.ts 86-139
htmlToMarkdown(html) ==
    IF html = <<>> THEN <<>> ELSE Trim(Chain(html, Replacements, 1))

---------------------------------------------------------------------------
(* The adapters: searchWeb *)

Resolved(results) == [state |-> "resolved", results |-> results, message |-> <<>>]
Rejected(msg) == [state |-> "rejected", results |-> <<>>, message |-> msg]
Refetch == [state |-> "fetching", results |-> <<>>, message |-> <<>>]

\* timeout is the time limit given to fetch or sent to the upstream, if any
NoRequest ==
    [method |-> "", url |-> "", credential |-> <<>>, query |-> "",
     maxResults |-> 0, searchDepth |-> "", scrapingTool |-> "",
     outputFormats |-> <<>>, timeout |-> NoNumber]

\* tavily-search.ts 43-60: the POST the call issues
TavilyRequest(a, q, m) ==
    [method |-> "POST", url |-> "https://api.tavily.com/search",
     credential |-> a.cred.str, query |-> q, maxResults |-> m,
     searchDepth |-> "advanced", scrapingTool |-> "", outputFormats |-> <<>>,
     timeout |-> NoNumber]

\* apify-search.ts 20-52: the GET the call issues; requestTimeoutSecs: 40 of
\* the args object (25) is not among the query parameters (33-44), and fetch
\* is given no signal (47-52)
ApifyRequest(a, q, m) ==
    [method |-> "GET", url |-> "https://rag-web-browser.apify.actor/search",
     credential |-> a.cred.str, query |-> q, maxResults |-> m,
     searchDepth |-> "", scrapingTool |-> "raw-http",
     outputFormats |-> <<"markdown">>, timeout |-> NoNumber]

Untitled == JString(<<"U", "n", "t", "i", "t", "l", "e", "d">>)
EmptyString == JString(<<>>)

\* tavily-search.ts 75-84 (text fields are strings or absent)
formatResultsContentFirst(results) ==
    [i \in DOMAIN results |->
        LET result == results[i]
        IN  [title |-> Or(result.title, Untitled),
             url |-> result.url,
             content |-> Or(result.content, EmptyString),
             markdown |-> JString(htmlToMarkdown(
                             Or(Or(result.content, result.raw_content),
                                EmptyString).str)),
             publishedDate |-> result.published_date,
             score |-> result.score]]
formatResults(results) ==
    [i \in DOMAIN results |->
        LET result == results[i]
        IN  [title |-> Or(result.title, Untitled),
             url |-> result.url,
             content |-> Or(result.content, EmptyString),
             markdown |-> JString(htmlToMarkdown(
                             Or(Or(result.raw_content, result.content),
                                EmptyString).str)),
             publishedDate |-> result.published_date,
             score |-> result.score]]

\* apify-search.ts 88-97
formatApifyResults(results) ==
    [i \in DOMAIN results |->
        LET result == results[i]
        IN  [title |-> Or(Or(result.title, result.name), Untitled),
             url |-> Or(Or(result.url, result.link), EmptyString),
             content |-> Or(Or(result.text, result.content), EmptyString),
             markdown |-> Or(Or(Or(result.markdown, result.text), result.content),
                             EmptyString),
             publishedDate |-> Or(result.publishedDate, result.date),
             score |-> Or(result.score, result.rank)]]

\* apify-search.ts 62-86, on the text of a JSON value
parseApifyResponse(r) ==
    CASE r.shape = "array" -> formatApifyResults(r.hits)
      [] r.shape = "wrapped" -> formatApifyResults(r.hits)
      [] r.shape = "single" ->
            LET data == r.hits[1]
            IN  IF JTruthy(Or(data.title, data.url))
                THEN formatApifyResults(<<data>>)
                ELSE <<>>
      [] OTHER -> <<>>

\* tavily-search.ts 69-72: the catch block wraps the error and rethrows it
TavilyCatchRetry(call, msg) ==
    IF call.fetches < 2 THEN Refetch
    ELSE Rejected(<<"Tavily search failed: ">> \o msg)
TavilyCatch(call, msg) == Rejected(<<"Tavily search failed: ">> \o msg)

\* tavily-search.ts 54-68: what the call does once fetch has settled
TavilyFinish(call, r) ==
    IF r.kind = "neterr"
    THEN TavilyCatch(call, <<"fetch failed">>)
    ELSE IF ~ResponseOk(r)
    THEN IF r.readable
         THEN TavilyCatch(call, <<"Tavily API error: ", ToString(r.status),
                                  " - ", r.text>>)
         ELSE TavilyCatch(call, <<"terminated">>)
    ELSE CASE r.shape = "invalid" -> TavilyCatch(call, <<"Unexpected token">>)
           [] r.shape = "wrapped" -> Resolved(formatResults(r.hits))
           [] r.shape = "null" ->
                TavilyCatch(call,
                    <<"Cannot read properties of null (reading 'results')">>)
           [] OTHER ->
                TavilyCatch(call,
                    <<"Cannot read properties of undefined (reading 'map')">>)

\* apify-search.ts 54-59 and 29-30: what the call does once fetch has settled
ApifyFinishLenient(call, r) ==
    IF r.kind = "neterr" \/ ~ResponseOk(r) \/ r.shape = "invalid"
    THEN Resolved(<<>>)
    ELSE Resolved(parseApifyResponse(r))
ApifyFinish(call, r) ==
    IF r.kind = "neterr"
    THEN Rejected(<<"fetch failed">>)
    ELSE IF ~ResponseOk(r)
    THEN Rejected(<<"Failed to call RAG Web Browser: ", r.statusText>>)
    ELSE IF r.shape = "invalid"
    THEN Rejected(<<"Unexpected token">>)
    ELSE Resolved(parseApifyResponse(r))

---------------------------------------------------------------------------
(* The process: a front-end, its adapter and the searches in flight *)

Slots == 1..MaxCalls

FreeCall ==
    [pc |-> "free", kind |-> "none",
     request |-> NoRequest, fetches |-> 0]

NoUpstream == [kind |-> "none", status |-> 0]
NoneSettled ==
    [state |-> "none", kind |-> "none", fetches |-> 0,
     upstream |-> NoUpstream, results |-> <<>>, message |-> <<>>]

\* http-server.ts 103: args.maxResults || 1
HttpMaxResults(m) == IF m.def /\ m.num # 0 THEN m.num ELSE 1

\* server.ts 28: .default(MAX_RESULTS)
StdioMaxResults(m) == IF m.def THEN m.num ELSE MAX_RESULTS

\* the adapter a search is dispatched to: the binding made at startup
\* (http-server.ts 63 and 103, server.ts 54 and 80)
ActiveProviderPerRequest ==
    LET s == HttpStartup(env)
    IN  IF s.exit = NoExit THEN s.provider ELSE searchProvider
ActiveProvider == searchProvider

\* whether selecting and constructing again, now, would give another adapter
Stale == HttpStartup(env).provider # bootProvider

\* searchWeb up to its await of fetch
Dispatch(slot, q, m) ==
    LET a == ActiveProvider
    IN  /\ staleDispatch' = (staleDispatch \/ Stale)
        /\ IF a.kind = "none"
           THEN /\ settled' = [NoneSettled EXCEPT
                                 !.state = "rejected",
                                 !.message = <<"Cannot read properties of undefined (reading 'searchWeb')">>]
                /\ UNCHANGED calls
           ELSE /\ calls' = [calls EXCEPT ![slot] =
                               [pc |-> "fetching", kind |-> a.kind,
                                request |-> IF a.kind = "tavily"
                                            THEN TavilyRequest(a, q, m)
                                            ELSE ApifyRequest(a, q, m),
                                fetches |-> 1]]
                /\ UNCHANGED settled

InitProcess ==
    /\ fcall = NoCall
    /\ frontend \in {"http", "stdio"}
    /\ phase = "init"
    /\ exitCode = NoExit
    /\ searchProvider = NoAdapter
    /\ providerType = <<>>
    /\ bootCredential = FALSE
    /\ bootProvider = NoAdapter
    /\ constructions = 0
    /\ calls = [s \in Slots |-> FreeCall]
    /\ staleDispatch = FALSE
    /\ settled = NoneSettled

\* no conversion, no answered search and no concurrent call is under observation
NoConversion == [html |-> <<>>, called |-> FALSE, markdown |-> <<>>]
NoReply ==
    [threw |-> FALSE, status |-> 0, success |-> FALSE, query |-> "",
     maxResults |-> 0, totalResults |-> 0, provider |-> <<>>, results |-> <<>>,
     error |-> "", message |-> <<>>, details |-> <<>>]
NoOutcome == [state |-> "none", results |-> <<>>, message |-> <<>>]
NoAnswer ==
    [frontend |-> "none", adapter |-> NoAdapter,
     args |-> [query |-> "", maxResults |-> NoNumber],
     response |-> NetworkError, called |-> FALSE,
     outcome |-> NoOutcome, reply |-> NoReply]
NoConcurrency == [calls |-> <<>>, last |-> NoOutcome]
NoPosts == <<>>
NoListing ==
    [listed |-> FALSE, threw |-> FALSE, activeProvider |-> <<>>,
     availableProviders |-> <<>>]
\* failed: some request was answered with status 500; waited: a request that
\* was in flight when a signal arrived has been answered since
NoServer ==
    [conns |-> <<>>, closing |-> FALSE, failed |-> FALSE, waited |-> FALSE,
     listing |-> NoListing]
InitPure ==
    /\ md = NoConversion
    /\ answer = NoAnswer
    /\ conc = NoConcurrency
    /\ posts = NoPosts
    /\ srv = NoServer

Init ==
    /\ env \in ProcessEnvs
    /\ InitProcess
    /\ InitPure

\* an assignment to process.env while the process runs
SetEnv ==
    /\ phase = "serving"
    /\ AssignEnv(ProcessEnvs)
    /\ UNCHANGED <<fcall, procVars, pureVars>>

Started(s) ==
    /\ bootCredential' = (\E name \in {"TAVILY_API_KEY", "APIFY_TOKEN"} :
                             env[name].def /\ Len(env[name].str) > 0)
    /\ exitCode' = s.exit
    /\ phase' = IF s.exit = NoExit THEN "serving" ELSE "exited"
    /\ searchProvider' = s.provider
    /\ bootProvider' = s.provider
    /\ providerType' = s.type
    /\ constructions' = constructions + s.built
    /\ UNCHANGED <<env, fcall, frontend, calls, staleDispatch, settled, pureVars>>

\* node dist/http-server.js: the module's top level, to app.listen
HttpBoot ==
    /\ frontend = "http"
    /\ phase = "init"
    /\ Started(HttpStartup(env))

\* node dist/index.js: main(), to server.connect(transport)
StdioBoot ==
    /\ frontend = "stdio"
    /\ phase = "init"
    /\ Started(StdioStartup(env))

\* POST /api/search with a valid body (http-server.ts 78-103)
HttpSearch(slot, args) ==
    /\ frontend = "http"
    /\ phase = "serving"
    /\ calls[slot].pc = "free"
    /\ Dispatch(slot, args.query, HttpMaxResults(args.maxResults))
    /\ UNCHANGED <<env, fcall, frontend, phase, exitCode, searchProvider,
                   providerType, bootCredential, bootProvider, constructions,
                   pureVars>>

\* tools/call of the search tool with valid arguments (server.ts 132-141, 78-81)
StdioSearch(slot, args) ==
    /\ frontend = "stdio"
    /\ phase = "serving"
    /\ calls[slot].pc = "free"
    /\ Dispatch(slot, args.query, StdioMaxResults(args.maxResults))
    /\ UNCHANGED <<env, fcall, frontend, phase, exitCode, searchProvider,
                   providerType, bootCredential, bootProvider, constructions,
                   pureVars>>

\* the fetch of a call settles and the call runs to its end
FetchSettles(slot, r) ==
    /\ phase = "serving"
    /\ calls[slot].pc = "fetching"
    /\ LET call == calls[slot]
           out == IF call.kind = "tavily" THEN TavilyFinish(call, r)
                  ELSE ApifyFinish(call, r)
       IN  IF out.state = "fetching"
           THEN /\ calls' = [calls EXCEPT ![slot].fetches = call.fetches + 1]
                /\ UNCHANGED settled
           ELSE /\ calls' = [calls EXCEPT ![slot] = FreeCall]
                /\ settled' = [state |-> out.state, kind |-> call.kind,
                               fetches |-> call.fetches,
                               upstream |-> [kind |-> r.kind, status |-> r.status],
                               results |-> out.results,
                               message |-> out.message]
    /\ UNCHANGED <<env, fcall, frontend, phase, exitCode, searchProvider,
                   providerType, bootCredential, bootProvider, constructions,
                   staleDispatch, pureVars>>

Next ==
    \/ SetEnv
    \/ HttpBoot
    \/ StdioBoot
    \/ \E slot \in Slots, args \in SearchArgs : HttpSearch(slot, args)
    \/ \E slot \in Slots, args \in SearchArgs : StdioSearch(slot, args)
    \/ \E slot \in Slots, r \in Responses : FetchSettles(slot, r)

Spec == Init /\ [][Next]_vars

\* the factory's static methods called directly, in any environment
FactoryInit ==
    /\ env \in Envs
    /\ InitProcess
    /\ InitPure

FactoryNext ==
    \/ FactorySetEnv
    \/ CallGetAvailableProviders
    \/ CallGetConfiguredProviderType
    \/ \E t \in {Tavily, Apify, Google} : CallCreateProvider(t)
    \/ CallInitializeProvider

FactorySpec == FactoryInit /\ [][FactoryNext]_vars

---------------------------------------------------------------------------
(* htmlToMarkdown called on documents *)

\* tag-free single-line texts: empty, plain, with whitespace at either end,
\* and with the characters a replacement pattern gives a meaning to
Texts == {<<>>, <<"T">>, <<"a", " ">>, <<" ", "b">>, <<"$", "1">>}

Tag(name) == Open(name) \o <<">">>
Element(name, inner) == Tag(name) \o inner \o Close(name)

\* <hn>T</hn><p>P <b>W</b></p>
HeadingDoc(n, T, P, W) ==
    Element(<<"h", Digit[n + 1]>>, T)
    \o Element(<<"p">>, P \o <<" ">> \o Element(<<"b">>, W))
HeadingDocs == {HeadingDoc(n, T, P, W) : n \in 1..6, T \in Texts, P \in Texts, W \in Texts}

\* <ul> or <ol> with one <li> per item
RECURSIVE ListItems(_, _)
ListItems(items, i) ==
    IF i > Len(items) THEN <<>>
    ELSE Element(<<"l", "i">>, items[i]) \o ListItems(items, i + 1)
ListDoc(name, items) == Element(name, ListItems(items, 1))

ItemLists == UNION {[1..k -> Texts] : k \in 0..MaxItems}
UlDocs == {ListDoc(<<"u", "l">>, items) : items \in ItemLists}

\* an <ol>, alone or followed by a second <ol>
SecondLists == {<<>>} \cup {[i \in 1..k |-> <<"a">>] : k \in 1..MaxItems}
OlDoc(items, more) ==
    ListDoc(<<"o", "l">>, items)
    \o (IF more = <<>> THEN <<>> ELSE ListDoc(<<"o", "l">>, more))
OlDocs == {OlDoc(items, more) : items \in ItemLists, more \in SecondLists}

\* a <script> or <style> block whose content holds the character x, inside
\* surroundings that do not
Script == <<"s", "c", "r", "i", "p", "t">>
Style == <<"s", "t", "y", "l", "e">>
Other(name) == IF name = Script THEN Style ELSE Script
BlockContents(name) ==
    { <<"x">>, <<"x", "\n", "x">>, Element(<<"b">>, <<"x">>),
      <<"x">> \o Close(Other(name)) \o <<"x">> }
Before == {<<>>, <<"y", " ">>, Tag(<<"p">>), <<"<", "p", " ">>}
After == {<<>>, <<" ", "y">>, Close(<<"p">>)}
BlockDoc(pre, name, content, post) == pre \o Element(name, content) \o post
BlockDocs ==
    UNION { {BlockDoc(pre, name, content, post) :
                pre \in Before, content \in BlockContents(name), post \in After} :
            name \in {Script, Style} }

Documents == HeadingDocs \cup UlDocs \cup OlDocs \cup BlockDocs

NoEnvs == {e \in ProcessEnvs : \A name \in DOMAIN e : ~e[name].def}

MarkdownInit ==
    /\ env \in NoEnvs
    /\ InitProcess
    /\ frontend = "http"
    /\ md \in {[NoConversion EXCEPT !.html = html] : html \in Documents}
    /\ answer = NoAnswer
    /\ conc = NoConcurrency
    /\ posts = NoPosts
    /\ srv = NoServer

\* htmlToMarkdown(html) is called and returns
CallHtmlToMarkdown ==
    /\ ~md.called
    /\ md' = [md EXCEPT !.called = TRUE, !.markdown = htmlToMarkdown(md.html)]
    /\ UNCHANGED <<env, fcall, procVars, answer, conc, posts, srv>>

MarkdownNext == CallHtmlToMarkdown

MarkdownSpec == MarkdownInit /\ [][MarkdownNext]_vars

---------------------------------------------------------------------------
(* One search, from the request a front-end accepted to its reply *)

\* searchWeb(query, maxResults) on adapter a when fetch settles with r
searchWeb(a, query, maxResults, r) ==
    LET call == [pc |-> "fetching", kind |-> a.kind,
                 request |-> IF a.kind = "tavily"
                             THEN TavilyRequest(a, query, maxResults)
                             ELSE ApifyRequest(a, query, maxResults),
                 fetches |-> 1]
        out == IF a.kind = "tavily" THEN TavilyFinish(call, r)
               ELSE ApifyFinish(call, r)
    IN  [state |-> out.state, results |-> out.results, message |-> out.message]

\* results.map(result => ({ title: result.title, ... })) in both front-ends
ReplyResults(results) ==
    [i \in DOMAIN results |->
        [title |-> results[i].title, url |-> results[i].url,
         content |-> results[i].content, markdown |-> results[i].markdown,
         publishedDate |-> results[i].publishedDate, score |-> results[i].score]]

\* http-server.ts 103-140: the answer to a valid POST /api/search
HttpReplyUnknownError(args, type, out) ==
    IF out.state = "resolved"
    THEN [NoReply EXCEPT !.status = 200, !.success = TRUE, !.query = args.query,
                         !.maxResults = HttpMaxResults(args.maxResults),
                         !.totalResults = Len(out.results), !.provider = type,
                         !.results = ReplyResults(out.results)]
    ELSE [NoReply EXCEPT !.status = 500, !.error = "Search failed",
                         !.message = <<"Unknown error">>]
HttpReply(args, type, out) ==
    IF out.state = "resolved"
    THEN [NoReply EXCEPT !.status = 200, !.success = TRUE, !.query = args.query,
                         !.maxResults = HttpMaxResults(args.maxResults),
                         !.totalResults = Len(out.results), !.provider = type,
                         !.results = ReplyResults(out.results)]
    ELSE [NoReply EXCEPT !.status = 500, !.error = "Search failed",
                         !.message = out.message]

\* server.ts 78-102 and 132-147: the result of tools/call with valid arguments
StdioReply(args, out) ==
    IF out.state = "resolved"
    THEN [NoReply EXCEPT !.success = TRUE, !.query = args.query,
                         !.maxResults = StdioMaxResults(args.maxResults),
                         !.totalResults = Len(out.results),
                         !.results = ReplyResults(out.results)]
    ELSE [NoReply EXCEPT !.threw = TRUE,
                         !.message = <<"Failed to perform web search: ",
                                       "Search failed: ">> \o out.message]

\* the values an upstream gives a text field of a hit
Contents ==
    { JUndefined, JString(<<>>), JString(<<" ">>), JString(<<"c">>),
      JString(<<" ", "c", "\n", "\n", "\n", "d", " ">>),
      JString(Tag(<<"b", "r">>)), JString(Element(<<"p">>, <<"c">>)),
      JString(Element(Script, <<"x">>)) }

TavilyHits ==
    { [EmptyObject EXCEPT !.title = t, !.url = u, !.content = c, !.raw_content = r] :
        t \in {JUndefined, JString(<<"T">>)}, u \in {JUndefined, JString(<<"U">>)},
        c \in Contents, r \in Contents }

ApifyHits ==
    { [EmptyObject EXCEPT !.title = t, !.name = n, !.url = u, !.link = l,
                          !.text = x, !.content = c, !.markdown = m] :
        t \in {JUndefined, JString(<<>>), JString(<<"T">>)},
        n \in {JUndefined, JString(<<"N">>)},
        u \in {JUndefined, JString(<<"U">>)},
        l \in {JUndefined, JString(<<"L">>)},
        x \in {JUndefined, JString(<<"X">>)},
        c \in {JUndefined, JString(<<"C">>)},
        m \in {JUndefined, JString(<<"M">>)} }

\* the values an upstream gives the score, the rank and the dates of a hit
Scores == {JUndefined, JNumber(0), JNumber(7)}
Ranks == {JUndefined, JNumber(2)}
Dates == {JUndefined, JString(<<>>), JString(<<"2", "0", "2", "4">>)}
OtherDates == {JUndefined, JString(<<"1", "9", "9", "9">>)}

TavilyScoredHits ==
    { [EmptyObject EXCEPT !.title = JString(<<"T">>), !.url = JString(<<"U">>),
                          !.score = s, !.published_date = d] :
        s \in Scores, d \in Dates }

ApifyScoredHits ==
    { [EmptyObject EXCEPT !.title = JString(<<"T">>), !.url = JString(<<"U">>),
                          !.score = s, !.rank = r,
                          !.publishedDate = d, !.date = o] :
        s \in Scores, r \in Ranks, d \in Dates, o \in OtherDates }

\* what the upstream of an adapter may answer
AnswerResponses(kind) ==
    Responses
    \cup (IF kind = "tavily"
          THEN {OkResponse("wrapped", <<h>>) : h \in TavilyHits \cup TavilyScoredHits}
          ELSE {OkResponse(shape, <<h>>) :
                   shape \in {"array", "wrapped", "single"},
                   h \in ApifyHits \cup ApifyScoredHits})

Adapters ==
    { TavilySearchProvider(Str(<<"k", "1">>)).adapter,
      ApifySearchProvider(Str(<<"k", "1">>)).adapter }
TypeOf(a) == IF a.kind = "tavily" THEN Tavily ELSE Apify

AnswerInit ==
    /\ env \in NoEnvs
    /\ InitProcess
    /\ md = NoConversion
    /\ conc = NoConcurrency
    /\ posts = NoPosts
    /\ srv = NoServer
    /\ answer \in UNION { {[NoAnswer EXCEPT !.frontend = f, !.adapter = a,
                                            !.args = args, !.response = r] :
                              f \in {"http", "stdio"}, args \in SearchArgs,
                              r \in AnswerResponses(a.kind)} : a \in Adapters }
    /\ frontend = answer.frontend

\* POST /api/search is handled: the search runs and the reply is sent
HttpAnswer ==
    /\ answer.frontend = "http"
    /\ ~answer.called
    /\ LET out == searchWeb(answer.adapter, answer.args.query,
                            HttpMaxResults(answer.args.maxResults), answer.response)
       IN  answer' = [answer EXCEPT !.called = TRUE, !.outcome = out,
                         !.reply = HttpReply(answer.args, TypeOf(answer.adapter), out)]
    /\ UNCHANGED <<env, fcall, procVars, md, conc, posts, srv>>

\* tools/call of the search tool is handled
StdioAnswer ==
    /\ answer.frontend = "stdio"
    /\ ~answer.called
    /\ LET out == searchWeb(answer.adapter, answer.args.query,
                            StdioMaxResults(answer.args.maxResults), answer.response)
       IN  answer' = [answer EXCEPT !.called = TRUE, !.outcome = out,
                         !.reply = StdioReply(answer.args, out)]
    /\ UNCHANGED <<env, fcall, procVars, md, conc, posts, srv>>

AnswerNext == HttpAnswer \/ StdioAnswer

AnswerSpec == AnswerInit /\ [][AnswerNext]_vars

---------------------------------------------------------------------------
(* Concurrent searches on the adapter an HTTP process holds, await by await *)

\* a call's local variables: its arguments, the request it built and the
\* response its fetch resolved with; sent is history, the response the
\* upstream gave to this call's request
IdleCall ==
    [pc |-> "free", query |-> "", request |-> NoRequest,
     response |-> NetworkError, sent |-> NetworkError]
NoLast ==
    [state |-> "none", query |-> "", sent |-> NetworkError,
     results |-> <<>>, message |-> <<>>]

\* the upstream answers the request it was sent: its hits are about that query
QueryHits(q, n) ==
    [i \in 1..n |->
        [EmptyObject EXCEPT !.title = JString(<<q>>),
                            !.url = JString(<<"u", Digit[i + 1]>>)]]
ServiceUnavailable ==
    [kind |-> "http", status |-> 503, statusText |-> "Service Unavailable",
     shape |-> "text", hits |-> <<>>, text |-> "upstream is down",
     readable |-> TRUE]
UpstreamAnswers(request) ==
    {NetworkError, ServiceUnavailable}
    \cup {OkResponse("wrapped", QueryHits(request.query, n)) : n \in 1..MaxHits}

\* the response a continuation reads: the local variable of its own call
AnyResponse(cs, slot) ==
    cs[Least({s \in DOMAIN cs : cs[s].pc = "reading"})].response
OwnResponse(cs, slot) == cs[slot].response

ServingEnvs ==
    {e \in ProcessEnvs : /\ e.TAVILY_API_KEY = Str(<<"k", "1">>)
                         /\ e.APIFY_TOKEN = Str(<<"k", "1">>)}

\* an HTTP process that has started and serves, with no search in flight
ConcurrentInit ==
    /\ env \in ServingEnvs
    /\ fcall = NoCall
    /\ frontend = "http"
    /\ phase = "serving"
    /\ exitCode = NoExit
    /\ searchProvider = HttpStartup(env).provider
    /\ providerType = HttpStartup(env).type
    /\ bootCredential = TRUE
    /\ bootProvider = searchProvider
    /\ constructions = 1
    /\ calls = [s \in Slots |-> FreeCall]
    /\ staleDispatch = FALSE
    /\ settled = NoneSettled
    /\ md = NoConversion
    /\ answer = NoAnswer
    /\ posts = NoPosts
    /\ srv = NoServer
    /\ conc = [calls |-> [s \in Slots |-> IdleCall], last |-> NoLast]

ConcurrentUnchanged ==
    UNCHANGED <<env, fcall, frontend, phase, exitCode, providerType,
                bootCredential, bootProvider, constructions, calls,
                staleDispatch, settled, md, answer, posts, srv>>

\* a call ends: its promise settles
Settle(slot, sent, out) ==
    conc' = [calls |-> [conc.calls EXCEPT ![slot] = IdleCall],
             last |-> [state |-> out.state, query |-> conc.calls[slot].query,
                       sent |-> sent, results |-> out.results,
                       message |-> out.message]]

\* POST /api/search calls searchWeb, which runs to its await of fetch
\* (http-server.ts 103; tavily-search.ts 42-60; apify-search.ts 19-52)
ConcurrentSearch(slot, args) ==
    /\ conc.calls[slot].pc = "free"
    /\ LET a == ActiveProvider
           m == HttpMaxResults(args.maxResults)
       IN  conc' = [conc EXCEPT !.calls[slot] =
                      [IdleCall EXCEPT
                         !.pc = "fetching", !.query = args.query,
                         !.request = IF a.kind = "tavily"
                                     THEN TavilyRequest(a, args.query, m)
                                     ELSE ApifyRequest(a, args.query, m)]]
    /\ searchProvider' = searchProvider
    /\ ConcurrentUnchanged

\* the fetch of a call settles: it rejects, or resolves with a response, and
\* the call goes on to its await of response.json() or response.text()
\* (tavily-search.ts 54-67; apify-search.ts 47-58)
ConcurrentFetchSettles(slot, r) ==
    /\ conc.calls[slot].pc = "fetching"
    /\ r \in UpstreamAnswers(conc.calls[slot].request)
    /\ LET kind == ActiveProvider.kind
       IN  IF r.kind = "neterr" \/ (kind = "apify" /\ ~ResponseOk(r))
           THEN Settle(slot, r, IF kind = "tavily"
                                THEN TavilyFinish([fetches |-> 1], r)
                                ELSE ApifyFinish([fetches |-> 1], r))
           ELSE conc' = [conc EXCEPT !.calls[slot].pc = "reading",
                                     !.calls[slot].response = r,
                                     !.calls[slot].sent = r]
    /\ searchProvider' = searchProvider
    /\ ConcurrentUnchanged

\* the body of a call's response has been read: the call normalises it, or
\* throws, and ends (tavily-search.ts 63-72; apify-search.ts 58-59, 29-30)
ConcurrentBodyRead(slot) ==
    /\ conc.calls[slot].pc = "reading"
    /\ LET r == OwnResponse(conc.calls, slot)
       IN  Settle(slot, conc.calls[slot].sent,
                  IF ActiveProvider.kind = "tavily"
                  THEN TavilyFinish([fetches |-> 1], r)
                  ELSE ApifyFinish([fetches |-> 1], r))
    /\ searchProvider' = searchProvider
    /\ ConcurrentUnchanged

ConcurrentNext ==
    \/ \E slot \in Slots, args \in SearchArgs : ConcurrentSearch(slot, args)
    \/ \E slot \in Slots :
          \E r \in UpstreamAnswers(conc.calls[slot].request) :
             ConcurrentFetchSettles(slot, r)
    \/ \E slot \in Slots : ConcurrentBodyRead(slot)

ConcurrentSpec == ConcurrentInit /\ [][ConcurrentNext]_vars

---------------------------------------------------------------------------
(* Request bodies and their validation *)

\* a JSON value of a request body; a number is held in tenths (15 is 1.5)
BUndefined == [type |-> "undefined", str |-> "", tenths |-> 0, items |-> <<>>]
BNull == [BUndefined EXCEPT !.type = "null"]
BString(s) == [BUndefined EXCEPT !.type = "string", !.str = s]
BNumber(tenths) == [BUndefined EXCEPT !.type = "number", !.tenths = tenths]
BArray(items) == [BUndefined EXCEPT !.type = "array", !.items = items]

\* req.body, or the arguments of tools/call: an object with these properties
\* (others are stripped by z.object), or a value that is not an object
EmptyBody ==
    [object |-> TRUE, query |-> BUndefined, maxResults |-> BUndefined,
     scrapingTool |-> BUndefined, outputFormats |-> BUndefined,
     requestTimeoutSecs |-> BUndefined]

\* strings made of whitespace only, which /[^\s]+/ does not match
BlankStrings == {"", " ", "\t", " \n "}

\* z.number().int().positive().min(lo).max(hi)
ZIntUnbounded(v, lo, hi) == v.type = "number" /\ v.tenths % 10 = 0
ZInt(v, lo, hi) ==
    /\ v.type = "number"
    /\ v.tenths % 10 = 0
    /\ v.tenths > 0
    /\ v.tenths >= lo * 10
    /\ v.tenths <= hi * 10
\* z.enum(values)
ZEnum(v, values) == v.type = "string" /\ v.str \in values
\* z.array(z.enum(values))
ZArrayOfEnum(v, values) ==
    v.type = "array" /\ \A i \in 1..Len(v.items) : v.items[i] \in values
\* schema.optional()
ZOptional(v, ok) == v.type = "undefined" \/ ok

ScrapingTools == {"browser-playwright", "raw-http"}
OutputFormats == {"text", "markdown", "html"}

Issue(ok, field) == IF ok THEN <<>> ELSE <<field>>

\* the properties both schemas declare alike: scrapingTool, outputFormats,
\* requestTimeoutSecs (http-server.ts 45-59, server.ts 33-46)
OptionIssues(body) ==
    Issue(ZOptional(body.scrapingTool, ZEnum(body.scrapingTool, ScrapingTools)),
          "scrapingTool")
    \o Issue(ZOptional(body.outputFormats,
                       ZArrayOfEnum(body.outputFormats, OutputFormats)),
             "outputFormats")
    \o Issue(ZOptional(body.requestTimeoutSecs,
                       ZInt(body.requestTimeoutSecs, 1, 300)),
             "requestTimeoutSecs")

\* the parsed value: an outer optional() returns undefined for an absent
\* property without applying the inner default
Parsed(body, issues, maxResults) ==
    [success |-> issues = <<>>, issues |-> issues,
     data |-> [query |-> body.query.str, maxResults |-> maxResults,
               scrapingTool |-> body.scrapingTool,
               outputFormats |-> body.outputFormats,
               requestTimeoutSecs |-> body.requestTimeoutSecs]]

\* http-server.ts 33-60, safeParse
WebSearchRequestSchema(body) ==
    LET issues ==
            IF ~body.object THEN <<"">>
            ELSE Issue(body.query.type = "string" /\ body.query.str # "", "query")
                 \o Issue(ZOptional(body.maxResults, ZInt(body.maxResults, 1, 100)),
                          "maxResults")
                 \o OptionIssues(body)
    IN  Parsed(body, issues,
               IF body.maxResults.type = "undefined" THEN NoNumber
               ELSE Num(body.maxResults.tenths \div 10))

\* server.ts 22-47, parse: maxResults has a default and is not optional
WebBrowserArgsSchema(body) ==
    LET issues ==
            IF ~body.object THEN <<"">>
            ELSE Issue(body.query.type = "string"
                          /\ body.query.str \notin BlankStrings, "query")
                 \o Issue(ZOptional(body.maxResults, ZInt(body.maxResults, 1, 100)),
                          "maxResults")
                 \o OptionIssues(body)
    IN  Parsed(body, issues,
               IF body.maxResults.type = "undefined" THEN Num(MAX_RESULTS)
               ELSE Num(body.maxResults.tenths \div 10))

\* http-server.ts 85-96: the answer to a body that fails validation
HttpInvalid(validation) ==
    [NoReply EXCEPT !.status = 400, !.error = "Invalid request parameters",
                    !.details = validation.issues]

\* server.ts 137 and 142-145: parse throws and the handler rethrows
StdioInvalid(validation) ==
    [NoReply EXCEPT !.threw = TRUE,
                    !.message = <<"Failed to perform web search: ">>
                                \o validation.issues]

\* http-server.ts 103: searchProvider.searchWeb(args.query, args.maxResults || 1),
\* to the fetch the adapter issues
OutboundWithOptions(a, q, m, args) ==
    IF a.kind = "tavily" THEN TavilyRequest(a, q, m)
    ELSE [ApifyRequest(a, q, m) EXCEPT
            !.scrapingTool = IF args.scrapingTool.type = "undefined" THEN @
                             ELSE args.scrapingTool.str,
            !.outputFormats = IF args.outputFormats.type = "undefined" THEN @
                              ELSE args.outputFormats.items,
            !.timeout = IF args.requestTimeoutSecs.type = "undefined" THEN @
                        ELSE Num(args.requestTimeoutSecs.tenths \div 10)]
Outbound(a, q, m, args) ==
    IF a.kind = "tavily" THEN TavilyRequest(a, q, m) ELSE ApifyRequest(a, q, m)

\* the bodies requests carry
Query == BString("san francisco weather")
ValidBody == [EmptyBody EXCEPT !.query = Query]

\* valid bodies that differ in the options, for two values of maxResults
OptionBodies ==
    { [ValidBody EXCEPT !.maxResults = m, !.scrapingTool = s,
                        !.outputFormats = o, !.requestTimeoutSecs = t] :
        m \in {BUndefined, BNumber(30)},
        s \in {BUndefined, BString("raw-http"), BString("browser-playwright")},
        o \in {BUndefined, BArray(<<"text", "html">>)},
        t \in {BUndefined, BNumber(50), BNumber(3000)} }

QueryBodies ==
    { [ValidBody EXCEPT !.query = q] :
        q \in {BUndefined, BNull, BNumber(10), BString(""), BString(" "),
               BString("https://www.cnn.com")} }

MaxResultsBodies ==
    { [ValidBody EXCEPT !.maxResults = m] :
        m \in {BNumber(10), BNumber(1000), BNumber(0), BNumber(-10),
               BNumber(1010), BNumber(15), BNumber(5), BString("3"), BNull} }

BadOptionBodies ==
    { [ValidBody EXCEPT !.scrapingTool = BString("curl")],
      [ValidBody EXCEPT !.outputFormats = BArray(<<"pdf">>)],
      [ValidBody EXCEPT !.outputFormats = BString("markdown")],
      [ValidBody EXCEPT !.requestTimeoutSecs = BNumber(0)],
      [ValidBody EXCEPT !.requestTimeoutSecs = BNumber(3010)] }

Bodies ==
    OptionBodies \cup QueryBodies \cup MaxResultsBodies \cup BadOptionBodies
    \cup {EmptyBody, [EmptyBody EXCEPT !.object = FALSE]}

NoPost ==
    [body |-> EmptyBody, handled |-> FALSE, valid |-> FALSE,
     request |-> NoRequest, reply |-> NoReply]

\* a serving process of either front-end and two requests it is about to get
ValidationInit ==
    /\ env \in ServingEnvs
    /\ fcall = NoCall
    /\ frontend \in {"http", "stdio"}
    /\ phase = "serving"
    /\ exitCode = NoExit
    /\ searchProvider = HttpStartup(env).provider
    /\ providerType = HttpStartup(env).type
    /\ bootCredential = TRUE
    /\ bootProvider = searchProvider
    /\ constructions = 1
    /\ calls = [s \in Slots |-> FreeCall]
    /\ staleDispatch = FALSE
    /\ settled = NoneSettled
    /\ md = NoConversion
    /\ answer = NoAnswer
    /\ conc = NoConcurrency
    /\ srv = NoServer
    /\ posts \in {<<[NoPost EXCEPT !.body = b1], [NoPost EXCEPT !.body = b2]>> :
                     b1 \in Bodies, b2 \in OptionBodies}

Handled(i, validation, reply, request) ==
    /\ posts' = [posts EXCEPT ![i] =
                    [@ EXCEPT !.handled = TRUE, !.valid = validation.success,
                              !.reply = IF validation.success THEN NoReply ELSE reply,
                              !.request = IF validation.success THEN request
                                          ELSE NoRequest]]
    /\ UNCHANGED <<env, fcall, procVars, md, answer, conc, srv>>

\* POST /api/search, to the reply with status 400 or to the await of the
\* adapter's fetch (http-server.ts 78-103)
HttpPost(i) ==
    /\ frontend = "http"
    /\ ~posts[i].handled
    /\ LET validation == WebSearchRequestSchema(posts[i].body)
           args == validation.data
       IN  Handled(i, validation, HttpInvalid(validation),
                   Outbound(searchProvider, args.query,
                            HttpMaxResults(args.maxResults), args))

\* tools/call of the search tool, to the error thrown or to the await of the
\* adapter's fetch (server.ts 132-138, 78-80)
StdioCallTool(i) ==
    /\ frontend = "stdio"
    /\ ~posts[i].handled
    /\ LET validation == WebBrowserArgsSchema(posts[i].body)
           args == validation.data
       IN  Handled(i, validation, StdioInvalid(validation),
                   Outbound(searchProvider, args.query,
                            StdioMaxResults(args.maxResults), args))

ValidationNext ==
    \/ \E i \in 1..2 : HttpPost(i)
    \/ \E i \in 1..2 : StdioCallTool(i)

ValidationSpec == ValidationInit /\ [][ValidationNext]_vars

---------------------------------------------------------------------------
(* The stdio server: tools/list beside the search tool calls *)

\* server.ts 115-130: the ListTools handler reads the environment of the moment
ListTools(e) ==
    LET availableProviders == getAvailableProviders(e)
        activeProvider == getConfiguredProviderType(e)
    IN  IF activeProvider.threw
        THEN [NoListing EXCEPT !.listed = TRUE, !.threw = TRUE]
        ELSE [NoListing EXCEPT !.listed = TRUE,
                               !.activeProvider = activeProvider.type,
                               !.availableProviders = availableProviders]

\* a tools/list request is answered
StdioListTools ==
    /\ frontend = "stdio"
    /\ phase = "serving"
    /\ srv' = [srv EXCEPT !.listing = ListTools(env)]
    /\ UNCHANGED <<env, fcall, procVars, md, answer, conc, posts>>

\* what the upstream answers while tools are listed
ToolsResponses == {NetworkError, OkResponse("wrapped", Hits(1))}

ToolsInit ==
    /\ env \in ProcessEnvs
    /\ InitProcess
    /\ frontend = "stdio"
    /\ InitPure

ToolsNext ==
    \/ SetEnv
    \/ StdioBoot
    \/ StdioListTools
    \/ \E slot \in Slots, args \in SearchArgs : StdioSearch(slot, args)
    \/ \E slot \in Slots, r \in ToolsResponses : FetchSettles(slot, r)

ToolsSpec == ToolsInit /\ [][ToolsNext]_vars

---------------------------------------------------------------------------
(* The HTTP server: connections, replies and shutdown *)

\* a connection: none, one whose request is being handled, or one whose
\* request has been answered and that the client keeps open.  atSignal: the
\* request was in flight when a signal arrived; afterFailure: the request
\* arrived after some request had been answered with status 500
NoConn ==
    [pc |-> "none", atSignal |-> FALSE, afterFailure |-> FALSE,
     outcome |-> NoOutcome, replies |-> <<>>]

ServerResponses == ToolsResponses \cup {ServiceUnavailable}

\* server.close(callback): the callback runs once the server has stopped
\* listening and every connection has ended (http-server.ts 317, 325)
DrainedAtOnce(conns) == TRUE
Drained(conns) == \A slot \in DOMAIN conns : conns[slot].pc = "none"

ServerInit ==
    /\ env \in ServingEnvs
    /\ InitProcess
    /\ frontend = "http"
    /\ md = NoConversion
    /\ answer = NoAnswer
    /\ conc = NoConcurrency
    /\ posts = NoPosts
    /\ srv = [NoServer EXCEPT !.conns = [slot \in Slots |-> NoConn]]

ServerUnchanged ==
    UNCHANGED <<env, fcall, frontend, searchProvider, providerType,
                bootCredential, bootProvider, constructions, calls,
                staleDispatch, settled, md, answer, conc, posts>>

\* the handler of a valid POST /api/search runs to its await of searchWeb
\* (http-server.ts 78-103)
Accept(slot) ==
    /\ srv' = [srv EXCEPT !.conns[slot] =
                  [NoConn EXCEPT !.pc = "handling", !.afterFailure = srv.failed]]
    /\ UNCHANGED <<phase, exitCode>>
    /\ ServerUnchanged

\* a client connects and posts a request; a closed server accepts no connection
Connect(slot) ==
    /\ phase = "serving"
    /\ ~srv.closing
    /\ srv.conns[slot].pc = "none"
    /\ Accept(slot)

\* the next request on a connection that was kept alive
Reuse(slot) ==
    /\ phase = "serving"
    /\ srv.conns[slot].pc = "answered"
    /\ Accept(slot)

\* searchWeb settles and the handler sends its response (http-server.ts 103-140)
Respond(slot, args, r) ==
    /\ phase = "serving"
    /\ srv.conns[slot].pc = "handling"
    /\ LET out == searchWeb(searchProvider, args.query,
                            HttpMaxResults(args.maxResults), r)
           reply == HttpReply(args, providerType, out)
       IN  srv' = [srv EXCEPT
                     !.failed = @ \/ reply.status = 500,
                     !.waited = @ \/ srv.conns[slot].atSignal,
                     !.conns[slot] =
                        [@ EXCEPT !.pc = "answered", !.atSignal = FALSE,
                                  !.outcome = out,
                                  !.replies = Append(@, reply)]]
    /\ UNCHANGED <<phase, exitCode>>
    /\ ServerUnchanged

\* a connection without a request in flight ends: the client closes it, or it
\* was idle for keepAliveTimeout
ConnectionEnds(slot) ==
    /\ phase = "serving"
    /\ srv.conns[slot].pc = "answered"
    /\ srv' = [srv EXCEPT !.conns[slot] = NoConn]
    /\ UNCHANGED <<phase, exitCode>>
    /\ ServerUnchanged

\* SIGINT or SIGTERM: the handler calls server.close (http-server.ts 315-329)
Signal(name) ==
    /\ frontend = "http"
    /\ phase = "serving"
    /\ srv' = [srv EXCEPT
                 !.closing = TRUE,
                 !.conns = [slot \in DOMAIN @ |->
                              [@[slot] EXCEPT
                                 !.atSignal = @ \/ srv.conns[slot].pc = "handling"]]]
    /\ UNCHANGED <<phase, exitCode>>
    /\ ServerUnchanged

\* the callback given to server.close runs: process.exit(0)
\* (http-server.ts 317-320, 325-328)
CloseCallback ==
    /\ phase = "serving"
    /\ srv.closing
    /\ Drained(srv.conns)
    /\ phase' = "exited"
    /\ exitCode' = <<0>>
    /\ UNCHANGED srv
    /\ ServerUnchanged

ServerNext ==
    \/ HttpBoot
    \/ \E slot \in Slots : Connect(slot)
    \/ \E slot \in Slots : Reuse(slot)
    \/ \E slot \in Slots, args \in SearchArgs, r \in ServerResponses :
          Respond(slot, args, r)
    \/ \E slot \in Slots : ConnectionEnds(slot)
    \/ \E name \in {"SIGINT", "SIGTERM"} : Signal(name)
    \/ CloseCallback

ServerSpec == ServerInit /\ [][ServerNext]_vars

\* the event loop runs a callback that is ready; fetch settles, with a response
\* or an error; a connection that is idle again and again is ended
ServerFairness ==
    /\ WF_vars(HttpBoot)
    /\ WF_vars(CloseCallback)
    /\ \A slot \in Slots :
          /\ WF_vars(\E args \in SearchArgs, r \in ServerResponses :
                        Respond(slot, args, r))
          /\ SF_vars(ConnectionEnds(slot))

LiveServerSpec == ServerSpec /\ ServerFairness

---------------------------------------------------------------------------
(* What the claims say, stated without the operators that model the code *)

NonEmptyString(v) == v.def /\ Len(v.str) > 0

SameIgnoringCase(a, b) ==
    /\ Len(a) = Len(b)
    /\ \A i \in 1..Len(a) :
          \/ a[i] = b[i]
          \/ \E k \in 1..26 : {a[i], b[i]} = {UpperLetters[k], LowerLetters[k]}

\* the known providers in their declared order, and the credential of each
KnownProviders == <<Tavily, Apify>>
CredentialOf(e, t) == IF t = Tavily THEN e.TAVILY_API_KEY ELSE e.APIFY_TOKEN

Names(e, t) ==
    e.SEARCH_PROVIDER.def /\ SameIgnoringCase(e.SEARCH_PROVIDER.str, t)
NamesAvailable(e) ==
    \E i \in 1..2 : /\ Names(e, KnownProviders[i])
                    /\ NonEmptyString(CredentialOf(e, KnownProviders[i]))
SomeCredential(e) ==
    \E i \in 1..2 : NonEmptyString(CredentialOf(e, KnownProviders[i]))
FirstWithCredential(e) ==
    KnownProviders[CHOOSE i \in 1..2 :
        /\ NonEmptyString(CredentialOf(e, KnownProviders[i]))
        /\ \A j \in 1..(i - 1) : ~NonEmptyString(CredentialOf(e, KnownProviders[j]))]

NonSuccess(u) == u.kind = "http" /\ (u.status < 200 \/ u.status > 299)
Mentions(message, status) ==
    \E i \in 1..Len(message) : message[i] = ToString(status)

---------------------------------------------------------------------------
(* Claims about the factory, under FactorySpec *)

\* C1: getConfiguredProviderType returns exactly the provider SEARCH_PROVIDER
\* names, compared without regard to case, whenever that provider is known and
\* its credential is a non-empty string.
C1_ConfiguredAvailableIsReturned ==
    fcall.op = "getConfiguredProviderType" =>
        \A i \in 1..2 :
            ( /\ Names(fcall.env, KnownProviders[i])
              /\ NonEmptyString(CredentialOf(fcall.env, KnownProviders[i])) )
            => ( ~fcall.sel.threw /\ fcall.sel.type = KnownProviders[i] )

C1_Witness ==
    /\ fcall.op = "getConfiguredProviderType"
    /\ fcall.env.SEARCH_PROVIDER = Str(<<"A", "P", "I", "F", "Y">>)
    /\ NonEmptyString(fcall.env.TAVILY_API_KEY)
    /\ NonEmptyString(fcall.env.APIFY_TOKEN)
    /\ fcall.sel.type = Apify

\* C2: when SEARCH_PROVIDER names no available known provider (unset, unknown,
\* or its credential missing) and some provider is available,
\* getConfiguredProviderType does not raise and returns the first available
\* provider in the order tavily, apify.
C2_FallbackIsFirstAvailable ==
    ( /\ fcall.op = "getConfiguredProviderType"
      /\ ~NamesAvailable(fcall.env)
      /\ SomeCredential(fcall.env) )
    => ( /\ ~fcall.sel.threw
         /\ fcall.sel.type = FirstWithCredential(fcall.env) )

C2_Witness ==
    /\ fcall.op = "getConfiguredProviderType"
    /\ fcall.env.SEARCH_PROVIDER = Str(Tavily)
    /\ fcall.env.TAVILY_API_KEY = Str(<<>>)
    /\ NonEmptyString(fcall.env.APIFY_TOKEN)
    /\ ~fcall.sel.threw
    /\ fcall.sel.type = Apify
    /\ fcall.sel.warned

\* C3: when neither credential is a non-empty string,
\* getConfiguredProviderType raises for every SEARCH_PROVIDER and returns no
\* provider identifier.
C3_NoCredentialRaises ==
    ( /\ fcall.op = "getConfiguredProviderType"
      /\ ~SomeCredential(fcall.env) )
    => ( /\ fcall.sel.threw
         /\ fcall.sel.type = <<>>
         /\ fcall.sel.error # <<>> )

C3_Witness ==
    /\ fcall.op = "getConfiguredProviderType"
    /\ fcall.env.SEARCH_PROVIDER = Str(Tavily)
    /\ fcall.env.TAVILY_API_KEY = Str(<<>>)
    /\ fcall.env.APIFY_TOKEN = Undefined
    /\ fcall.sel.threw

\* C4: getAvailableProviders returns one descriptor for every known provider,
\* and a descriptor is available exactly when that provider's credential is a
\* non-empty string at the time of the call.
C4_AvailableIffCredential ==
    fcall.op = "getAvailableProviders" =>
        /\ Len(fcall.providers) = 2
        /\ \A i \in 1..2 :
              /\ fcall.providers[i].type = KnownProviders[i]
              /\ fcall.providers[i].available
                    <=> NonEmptyString(CredentialOf(fcall.env, KnownProviders[i]))

C4_Witness ==
    /\ fcall.op = "getAvailableProviders"
    /\ fcall.env.TAVILY_API_KEY = Str(<<>>)
    /\ NonEmptyString(fcall.env.APIFY_TOKEN)
    /\ ~fcall.providers[1].available
    /\ fcall.providers[2].available

\* C5: createProvider fails with a configuration error whenever the credential
\* of the identified provider is absent or empty, also when no
\* getConfiguredProviderType call chose the identifier, and it never returns
\* an adapter built without a credential.
C5_CreateNeedsCredential ==
    fcall.op = "createProvider" =>
        /\ \A i \in 1..2 :
              ( /\ fcall.arg = KnownProviders[i]
                /\ ~NonEmptyString(CredentialOf(fcall.env, KnownProviders[i])) )
              => ( /\ fcall.made.threw
                   /\ fcall.made.error # <<>>
                   /\ fcall.made.adapter = NoAdapter )
        /\ ~fcall.made.threw =>
              /\ fcall.made.adapter.kind \in {"tavily", "apify"}
              /\ NonEmptyString(fcall.made.adapter.cred)

\* createProvider('tavily') where getConfiguredProviderType would have chosen apify
C5_Witness ==
    /\ fcall.op = "createProvider"
    /\ fcall.arg = Tavily
    /\ fcall.env.TAVILY_API_KEY = Undefined
    /\ NonEmptyString(fcall.env.APIFY_TOKEN)
    /\ fcall.made.threw

\* C25: if at least one provider credential is non-empty at startup, then for
\* every value of SEARCH_PROVIDER (unset, empty, unknown, in any letter case, or
\* naming the provider that has no credential) selecting the type and then
\* constructing the adapter both succeed, and the adapter constructed is the
\* one of the selected type, holding that provider's non-empty credential.
C25_CredentialMeansAdapter ==
    (fcall.op = "initializeProvider" /\ SomeCredential(fcall.env)) =>
        /\ ~fcall.sel.threw
        /\ ~fcall.made.threw
        /\ \E i \in 1..2 :
              /\ fcall.sel.type = KnownProviders[i]
              /\ fcall.made.adapter.kind = <<"tavily", "apify">>[i]
              /\ fcall.made.adapter.cred = CredentialOf(fcall.env, KnownProviders[i])
        /\ NonEmptyString(fcall.made.adapter.cred)

\* SEARCH_PROVIDER names, in capitals, the provider whose credential is the empty
\* string, and the other provider's adapter is constructed
C25_Witness ==
    /\ fcall.op = "initializeProvider"
    /\ fcall.env.SEARCH_PROVIDER = Str(<<"A", "P", "I", "F", "Y">>)
    /\ fcall.env.APIFY_TOKEN = Str(<<>>)
    /\ NonEmptyString(fcall.env.TAVILY_API_KEY)
    /\ fcall.made.adapter.kind = "tavily"

---------------------------------------------------------------------------
(* Claims about the front-ends and the adapters, under Spec *)

InFlight == {slot \in Slots : calls[slot].pc = "fetching"}

\* C6: when no provider credential is present at startup, neither front-end
\* reaches a state in which it serves a request: the process is exited with
\* code 1, it holds no adapter, and no search was dispatched or answered.
C6_NoCredentialHalts ==
    (phase # "init" /\ ~bootCredential) =>
        /\ phase = "exited"
        /\ exitCode = <<1>>
        /\ searchProvider = NoAdapter
        /\ constructions = 0
        /\ InFlight = {}
        /\ settled = NoneSettled

C6_Witness ==
    /\ frontend = "stdio"
    /\ phase = "exited"
    /\ exitCode = <<1>>
    /\ ~bootCredential
    /\ env.SEARCH_PROVIDER = Str(Tavily)

\* C7: the adapter is constructed once, at startup: while the process serves,
\* whatever the environment has become, one adapter has been constructed, the
\* front-end holds it, and every search in flight was sent by it with the
\* credential it was constructed with.
C7_AdapterHeldSinceStartup ==
    phase = "serving" =>
        /\ constructions = 1
        /\ searchProvider = bootProvider
        /\ \A slot \in InFlight :
              /\ calls[slot].kind = bootProvider.kind
              /\ calls[slot].request.credential = bootProvider.cred.str

\* the only search dispatched so far was dispatched after the environment had
\* changed so that startup would now choose another adapter, and is in flight
C7_Witness ==
    /\ phase = "serving"
    /\ staleDispatch
    /\ settled = NoneSettled
    /\ Cardinality(InFlight) = 1
    /\ \A slot \in InFlight : calls[slot].kind = bootProvider.kind

\* C8: for both adapters, when the upstream answers with a non-success status
\* or the outbound call itself fails, searchWeb rejects and yields no result
\* sequence.
C8_UpstreamFailureRejects ==
    ( /\ settled.state # "none"
      /\ (settled.upstream.kind = "neterr" \/ NonSuccess(settled.upstream)) )
    => ( settled.state = "rejected" /\ settled.results = <<>> )

C8_Witness ==
    /\ settled.kind = "apify"
    /\ settled.upstream = [kind |-> "http", status |-> 503]
    /\ settled.state = "rejected"

\* C9: for both adapters, when the upstream returns a non-success status, the
\* message of the error searchWeb rejects with includes that numeric status.
C9_StatusInMessage ==
    NonSuccess(settled.upstream) =>
        /\ settled.state = "rejected"
        /\ Mentions(settled.message, settled.upstream.status)

\* C10: every searchWeb call issues exactly one outbound request, whether it
\* ends in success or in failure.
C10_OneRequestPerCall ==
    /\ \A slot \in InFlight : calls[slot].fetches = 1
    /\ settled.kind # "none" => settled.fetches = 1

C10_Witness ==
    /\ settled.kind = "tavily"
    /\ settled.upstream = [kind |-> "http", status |-> 503]
    /\ settled.state = "rejected"
    /\ settled.fetches = 1

---------------------------------------------------------------------------
(* Claims about normalisation and replies, under AnswerSpec *)

IsString(v) == v.type = "string"
NonEmptyText(v) == v.type = "string" /\ Len(v.str) > 0

\* the first of the values that is a non-empty string, else the default text
RECURSIVE FirstNonEmpty(_, _)
FirstNonEmpty(values, default) ==
    IF values = <<>> THEN default
    ELSE IF NonEmptyText(values[1]) THEN values[1].str
    ELSE FirstNonEmpty(Tail(values), default)

Answered(kind) == answer.called /\ answer.adapter.kind = kind
OkBody(r) == r.kind = "http" /\ r.status >= 200 /\ r.status <= 299

\* the hits an upstream body holds, whichever accepted shape it has
UpstreamHits(r) ==
    IF OkBody(r) /\ r.shape \in {"array", "wrapped", "single"} THEN r.hits ELSE <<>>

\* C11: for the Apify adapter and any hit written with any of the accepted key
\* names, the bodies [hit], {results: [hit]} and hit all normalise to the same
\* one-element sequence: the hit's title (else name, else "Untitled"), url
\* (else link), text (else content) and markdown (else text, else content).
\* Refuted: a single hit object without title and url gives no element.
C11_ShapesNormaliseAlike ==
    ( /\ Answered("apify")
      /\ OkBody(answer.response)
      /\ answer.response.shape \in {"array", "wrapped", "single"}
      /\ Len(answer.response.hits) = 1 )
    => LET hit == answer.response.hits[1]
           out == answer.outcome
       IN  /\ out.state = "resolved"
           /\ Len(out.results) = 1
           /\ out.results[1].title =
                 JString(FirstNonEmpty(<<hit.title, hit.name>>,
                                       <<"U", "n", "t", "i", "t", "l", "e", "d">>))
           /\ out.results[1].url = JString(FirstNonEmpty(<<hit.url, hit.link>>, <<>>))
           /\ out.results[1].content =
                 JString(FirstNonEmpty(<<hit.text, hit.content>>, <<>>))
           /\ out.results[1].markdown =
                 JString(FirstNonEmpty(<<hit.markdown, hit.text, hit.content>>, <<>>))

\* C12: when the Apify upstream answers with a success status and a body that
\* is not JSON, searchWeb resolves with the empty sequence.  Refuted:
\* response.json() rejects before parseApifyResponse is reached.
C12_InvalidJsonGivesEmpty ==
    ( /\ Answered("apify")
      /\ OkBody(answer.response)
      /\ answer.response.shape = "invalid" )
    => /\ answer.outcome.state = "resolved"
       /\ answer.outcome.results = <<>>

\* C13: whenever searchWeb resolves, for either adapter and any maxResults, it
\* returns one element per upstream hit, in the upstream's order, and the
\* front-end reports that count as totalResults.  Refuted through C11: the
\* single hit object without title and url is one hit and gives no element.
C13_OneElementPerHit ==
    (answer.called /\ answer.outcome.state = "resolved")
    => LET hits == UpstreamHits(answer.response)
           results == answer.outcome.results
       IN  /\ Len(results) = Len(hits)
           /\ \A i \in 1..Len(hits) :
                 NonEmptyText(hits[i].title) => results[i].title = hits[i].title
           /\ answer.reply.totalResults = Len(hits)

\* C14: every element either adapter returns has title, url, content and
\* markdown as strings, whatever fields the hit omits.  Refuted: the Tavily
\* adapter copies url, so a hit without url gives an element without one.
C14_TextFieldsAreStrings ==
    (answer.called /\ answer.outcome.state = "resolved")
    => \A i \in 1..Len(answer.outcome.results) :
          LET result == answer.outcome.results[i]
          IN  /\ IsString(result.title)
              /\ IsString(result.url)
              /\ IsString(result.content)
              /\ IsString(result.markdown)

\* C15 as stated: for the Tavily adapter, a hit whose raw_content or content is
\* a non-empty string gives an element with non-empty markdown.  Refuted: text
\* that is only whitespace or only markup converts to the empty string.
C15_NonEmptyTextGivesMarkdown ==
    (Answered("tavily") /\ answer.outcome.state = "resolved")
    => \A i \in 1..Len(answer.outcome.results) :
          LET hit == answer.response.hits[i]
          IN  (NonEmptyText(hit.raw_content) \/ NonEmptyText(hit.content))
              => Len(answer.outcome.results[i].markdown.str) > 0

\* the text the Tavily adapter converts: raw_content, or content when
\* raw_content is absent or empty
Converted(hit) == FirstNonEmpty(<<hit.raw_content, hit.content>>, <<>>)
HasVisibleText(text) ==
    /\ \A j \in 1..Len(text) : text[j] # "<"
    /\ \E j \in 1..Len(text) : text[j] \notin {" ", "\n", "\t", "\r"}

\* C15, amended: for the Tavily adapter, a hit whose converted text
\* (raw_content, or content when raw_content is absent or empty) holds no "<"
\* and at least one character that is not whitespace gives an element with
\* non-empty markdown.
C15_VisibleTextGivesMarkdown ==
    (Answered("tavily") /\ answer.outcome.state = "resolved")
    => \A i \in 1..Len(answer.outcome.results) :
          HasVisibleText(Converted(answer.response.hits[i]))
          => Len(answer.outcome.results[i].markdown.str) > 0

\* reached: raw_content is empty, content is text between whitespace, and the
\* markdown is that text without the whitespace around it
C15_Witness ==
    /\ Answered("tavily")
    /\ answer.outcome.state = "resolved"
    /\ Len(answer.outcome.results) = 1
    /\ answer.response.hits[1].raw_content = JString(<<>>)
    /\ answer.response.hits[1].content = JString(<<" ", "c", "\n", "\n", "\n", "d", " ">>)
    /\ answer.outcome.results[1].markdown = JString(<<"c", "\n", "\n", "d">>)

\* the keys under which an adapter accepts the score and the date of a hit
ScoreKeys(kind) == IF kind = "tavily" THEN {"score"} ELSE {"score", "rank"}
DateKeys(kind) ==
    IF kind = "tavily" THEN {"published_date"} ELSE {"publishedDate", "date"}
Supplied(hit, keys) == {hit[k] : k \in {key \in keys : hit[key] # JUndefined}}

\* a value is passed through when it is one the hit supplied under an accepted
\* key, and is absent exactly when the hit supplied none
PassedThrough(value, hit, keys) ==
    IF Supplied(hit, keys) = {} THEN value = JUndefined
    ELSE value \in Supplied(hit, keys)

\* C27: for both adapters, the score and the publishedDate of a normalized
\* result are values the upstream hit supplied under an accepted key whenever
\* it supplied one (a score of 0 included), and are absent exactly when the
\* hit supplied none.
C27_ScoreAndDatePassThrough ==
    (answer.called /\ answer.outcome.state = "resolved")
    => /\ Len(answer.outcome.results) = Len(answer.response.hits)
          => \A i \in 1..Len(answer.outcome.results) :
                LET hit == answer.response.hits[i]
                    result == answer.outcome.results[i]
                    kind == answer.adapter.kind
                IN  /\ PassedThrough(result.score, hit, ScoreKeys(kind))
                    /\ PassedThrough(result.publishedDate, hit, DateKeys(kind))
                    /\ answer.reply.results[i].score = result.score
                    /\ answer.reply.results[i].publishedDate = result.publishedDate

---------------------------------------------------------------------------
(* Claims about htmlToMarkdown, under MarkdownSpec *)

Converts(html) == md.called /\ md.html = html

Sharps(n) == [i \in 1..n |-> "#"]

\* the lines, each ended by a newline
RECURSIVE Lines(_)
Lines(lines) ==
    IF lines = <<>> THEN <<>> ELSE lines[1] \o <<"\n">> \o Lines(Tail(lines))

\* the lines joined by newlines
Joined(lines) ==
    IF lines = <<>> THEN <<>>
    ELSE SubSeq(Lines(lines), 1, Len(Lines(lines)) - 1)

Blank(c) == c \in {" ", "\n", "\t", "\r"}
RECURSIVE WithoutTrailingBlanks(_)
WithoutTrailingBlanks(text) ==
    IF text = <<>> \/ ~Blank(text[Len(text)]) THEN text
    ELSE WithoutTrailingBlanks(SubSeq(text, 1, Len(text) - 1))

Bulleted(items) == [i \in DOMAIN items |-> <<"-", " ">> \o items[i]]
Numbered(items) == [i \in DOMAIN items |-> <<Digit[i + 1], ".", " ">> \o items[i]]

\* C16: for n in 1..6 and tag-free single-line texts T, P and W, the input
\* <hn>T</hn><p>P <b>W</b></p> converts to n "#", a space and T, a blank line,
\* then P, a space and **W**, with nothing after it.
HeadingCases ==
    { [html |-> HeadingDoc(n, T, P, W),
       markdown |-> Sharps(n) \o <<" ">> \o T \o <<"\n", "\n">>
                    \o P \o <<" ", "*", "*">> \o W \o <<"*", "*">>] :
        n \in 1..6, T \in Texts, P \in Texts, W \in Texts }
C16_HeadingThenBoldParagraph ==
    \A case \in HeadingCases : Converts(case.html) => md.markdown = case.markdown

\* reached: a level-6 heading and texts with whitespace and "$1" in them
C16_Witness ==
    /\ Converts(HeadingDoc(6, <<"T">>, <<"a", " ">>, <<"$", "1">>))
    /\ md.markdown = <<"#", "#", "#", "#", "#", "#", " ", "T", "\n", "\n",
                        "a", " ", " ", "*", "*", "$", "1", "*", "*">>

\* C17: for an <ol> of k items of tag-free single-line text, the i-th output
\* line is "i. " and the i-th item's text, and a second <ol> starts again at
\* 1 (whitespace at the end of the output aside).  Refuted: every line holds
\* the characters "$1" in place of the item's text.
OlCases ==
    { [html |-> OlDoc(items, more), items |-> items, more |-> more] :
        items \in ItemLists, more \in SecondLists }
C17_OrderedItemsNumbered ==
    \A case \in OlCases :
        Converts(case.html)
        => md.markdown =
              WithoutTrailingBlanks(
                 IF case.items = <<>> THEN Joined(Numbered(case.more))
                 ELSE IF case.more = <<>> THEN Joined(Numbered(case.items))
                 ELSE Lines(Numbered(case.items)) \o <<"\n">>
                      \o Joined(Numbered(case.more)))

\* C18 as stated: for a <ul> of k items of tag-free single-line text, the
\* output is k lines, the i-th being "- " and the i-th item's text.  Refuted:
\* the final trim removes whitespace that ends the last item.
UlCases == {[html |-> ListDoc(<<"u", "l">>, items), items |-> items] : items \in ItemLists}
C18_UnorderedItemsBulleted ==
    \A case \in UlCases :
        Converts(case.html) => md.markdown = Joined(Bulleted(case.items))

\* C18, amended: for a <ul> of k items of tag-free single-line text, the
\* output is k lines, the i-th being "- " and the i-th item's text, except
\* that whitespace at the end of the last line is removed.
C18_UnorderedItemsBulletedTrimmed ==
    \A case \in UlCases :
        Converts(case.html)
        => md.markdown = WithoutTrailingBlanks(Joined(Bulleted(case.items)))

\* reached: three items, the second empty, the last ending in a space
C18_Witness ==
    /\ Converts(ListDoc(<<"u", "l">>, << <<"T">>, <<>>, <<"a", " ">> >>))
    /\ md.markdown = <<"-", " ", "T", "\n", "-", " ", "\n", "-", " ", "a">>

\* C19: nothing that stands between an opening <script> or <style> tag and
\* its closing tag appears in the output, whatever the block holds and
\* whatever surrounds it.  Refuted: the block is cut at the first </script>
\* or </style>, whichever tag opened it, and an unclosed "<p " before the
\* block swallows the opening tag.
C19_BlockContentRemoved ==
    (md.called /\ md.html \in BlockDocs)
    => \A j \in 1..Len(md.markdown) : md.markdown[j] # "x"

---------------------------------------------------------------------------
(* Claims about concurrent calls, under ConcurrentSpec *)

MentionsText(message, text) == \E i \in 1..Len(message) : message[i] = text

\* C20: however concurrent searchWeb calls on the one adapter interleave, the
\* adapter keeps the credential it was constructed with, every call in flight
\* holds a request built from its own query and that credential, and a call
\* settles with what its own response gives for its own query: one element
\* per hit the upstream sent to it, or a rejection that tells a failed fetch
\* from a failure status.
C20_CallsDoNotInterfere ==
    /\ searchProvider = bootProvider
    /\ \A slot \in DOMAIN conc.calls :
          conc.calls[slot].pc # "free"
          => /\ conc.calls[slot].request.query = conc.calls[slot].query
             /\ conc.calls[slot].request.credential = bootProvider.cred.str
    /\ conc.last.state # "none"
       => IF OkBody(conc.last.sent)
          THEN /\ conc.last.state = "resolved"
               /\ Len(conc.last.results) = Len(conc.last.sent.hits)
               /\ \A i \in 1..Len(conc.last.results) :
                     /\ conc.last.results[i].title = JString(<<conc.last.query>>)
                     /\ conc.last.results[i].url = conc.last.sent.hits[i].url
          ELSE /\ conc.last.state = "rejected"
               /\ MentionsText(conc.last.message, "fetch failed")
                  <=> conc.last.sent.kind = "neterr"

\* reached: a call has settled with its own two hits while another call, with
\* another query and another response in hand, is between its two awaits
C20_Witness ==
    /\ conc.last.state = "resolved"
    /\ Len(conc.last.results) = 2
    /\ \E slot \in DOMAIN conc.calls :
          /\ conc.calls[slot].pc = "reading"
          /\ conc.calls[slot].query # conc.last.query
          /\ conc.calls[slot].response # conc.last.sent

---------------------------------------------------------------------------
(* Claims about request validation and the outbound call, under ValidationSpec *)

MissingOrEmptyQuery(body) ==
    \/ body.query.type = "undefined"
    \/ body.query.type = "string" /\ body.query.str = ""
IntegerIn(v, lo, hi) ==
    /\ v.type = "number"
    /\ \E n \in lo..hi : v.tenths = 10 * n
BadMaxResults(body) ==
    body.maxResults.type # "undefined" /\ ~IntegerIn(body.maxResults, 1, 100)

\* C22: HTTP front-end: a POST /api/search whose body has a missing or empty
\* query, or a maxResults that is not an integer in 1..100, is answered with
\* status 400 and success false, and no outbound provider call is made for it.
C22_InvalidBodyGets400 ==
    frontend = "http" =>
        \A i \in 1..2 :
           ( /\ posts[i].handled
             /\ MissingOrEmptyQuery(posts[i].body) \/ BadMaxResults(posts[i].body) )
           => /\ posts[i].reply.status = 400
              /\ posts[i].reply.success = FALSE
              /\ posts[i].request = NoRequest

\* a maxResults of 1.5 with a valid query was answered with 400, naming the field
C22_Witness ==
    /\ frontend = "http"
    /\ posts[1].handled
    /\ posts[1].body.query = Query
    /\ posts[1].body.maxResults = BNumber(15)
    /\ posts[1].reply.status = 400
    /\ posts[1].reply.details = <<"maxResults">>
    /\ posts[1].request = NoRequest

---------------------------------------------------------------------------
(* Claims about the stdio server's tool listing, under ToolsSpec *)

KindOf(t) == IF t = Tavily THEN "tavily" ELSE IF t = Apify THEN "apify" ELSE "none"

\* C26: stdio front-end: in every reachable state, also after the environment
\* changed since startup, the provider a ListTools response names as
\* 'Currently using' is the provider of the adapter the process holds, which
\* is the one every search tool call in flight was sent by.
C26_ListedProviderServes ==
    (frontend = "stdio" /\ srv.listing.listed /\ ~srv.listing.threw) =>
        /\ KindOf(srv.listing.activeProvider) = searchProvider.kind
        /\ \A slot \in InFlight :
              calls[slot].kind = KindOf(srv.listing.activeProvider)

---------------------------------------------------------------------------
(* Claims about the HTTP server, under ServerSpec and LiveServerSpec *)

Connections == DOMAIN srv.conns

\* C21: HTTP front-end: every POST /api/search whose adapter call fails is
\* answered with exactly one response, of status 500 with success false and the
\* error's message; the process then still serves with the adapter it held,
\* and a request that arrives after a failure is answered, once, by its own
\* outcome.
C21_FailureAnswered500 ==
    /\ \A slot \in Connections :
          LET conn == srv.conns[slot]
          IN  /\ conn.pc = "handling" => conn.replies = <<>>
              /\ conn.pc = "answered" =>
                    /\ Len(conn.replies) = 1
                    /\ conn.outcome.state = "rejected" =>
                          /\ conn.replies[1].status = 500
                          /\ conn.replies[1].success = FALSE
                          /\ conn.replies[1].message = conn.outcome.message
                    /\ (conn.afterFailure /\ conn.outcome.state = "resolved") =>
                          /\ conn.replies[1].status = 200
                          /\ conn.replies[1].success = TRUE
    /\ srv.failed =>
          /\ searchProvider = bootProvider
          /\ searchProvider.kind \in {"tavily", "apify"}
          /\ constructions = 1
          /\ exitCode # <<1>>
          /\ phase = "exited" => srv.closing

\* a request that arrived after a failed one has been answered with status 200
\* while another failed request's reply is still on its connection
C21_Witness ==
    /\ phase = "serving"
    /\ ~srv.closing
    /\ \E slot \in Connections :
          /\ srv.conns[slot].pc = "answered"
          /\ srv.conns[slot].afterFailure
          /\ srv.conns[slot].replies[1].status = 200
    /\ \E slot \in Connections :
          /\ srv.conns[slot].pc = "answered"
          /\ srv.conns[slot].outcome.state = "rejected"
          /\ srv.conns[slot].replies[1].status = 500
          /\ srv.conns[slot].replies[1].message # <<>>

====
